---- MODULE Spec2Model ----
(***************************************************************************)
(* Model of the Titan payment ledger (AlgoProject.py): the Purchase value  *)
(* type and the PurchaseLog container with its date-ordered insertion,     *)
(* running aggregates and queries, and the Platform that reads purchases   *)
(* from the console.                                                       *)
(*                                                                         *)
(* Conventions.                                                            *)
(*  - status is a boolean as in the source: FALSE is due, TRUE is paid.    *)
(*  - Money is a Python float, an IEEE 754 double, and the arithmetic on   *)
(*    it (product, quotient, sum, order) is that of doubles, rounding      *)
(*    included.  A number is a record: [value |-> n] for a whole number    *)
(*    smaller than 2^30 in size (1000.0 and the int 1000 are both          *)
(*    [value |-> 1000]); for every other double [float |-> "double",       *)
(*    negative, mantissa, exponent], the number mantissa * 2^exponent      *)
(*    with the odd mantissa written in limbs of 15 bits, the least         *)
(*    significant first (-0.0 has mantissa <<>> and exponent 0);           *)
(*    [float |-> "inf", negative]; [float |-> "nan"].                      *)
(*  - A date is a record [year, month, day].                               *)
(*  - A str read from the console is the sequence of the code points of    *)
(*    its characters (ord): "Visa" is <<86, 105, 115, 97>>, which          *)
(*    Typed(<<"V", "i", "s", "a">>) writes.  A card name of the source, a  *)
(*    key of card_rate, is a string.                                       *)
(*  - Python list indices are 0-based; log[i] of the source is At(log, i). *)
(*  - A raised exception is a record with an "error" field.                *)
(***************************************************************************)
EXTENDS Integers, Sequences, FiniteSets, TLC

\* Python's None.
None == [none |-> TRUE]

IsError(x) == "error" \in DOMAIN x

ValueError == [error |-> "ValueError"]
OverflowError == [error |-> "OverflowError"]
IndexError == [error |-> "IndexError"]
ZeroDivisionError == [error |-> "ZeroDivisionError"]

(***************************************************************************)
(* Console input: a typed line is the sequence of the code points of its   *)
(* characters                                                              *)
(***************************************************************************)

\* The printable ASCII characters in the order of their code points, from the
\* blank (32) to the underscore (95) and from the letter a (97) to the tilde
\* (126).
AsciiFromBlank ==
    <<
      " ", "!", "\"", "#", "$", "%", "&", "'", "(", ")", "*", "+", ",", "-",
      ".", "/", "0", "1", "2", "3", "4", "5", "6", "7", "8", "9", ":", ";",
      "<", "=", ">", "?", "@", "A", "B", "C", "D", "E", "F", "G", "H", "I",
      "J", "K", "L", "M", "N", "O", "P", "Q", "R", "S", "T", "U", "V", "W",
      "X", "Y", "Z", "[", "\\", "]", "^", "_"
    >>

AsciiFromLetter ==
    <<
      "a", "b", "c", "d", "e", "f", "g", "h", "i", "j", "k", "l", "m", "n",
      "o", "p", "q", "r", "s", "t", "u", "v", "w", "x", "y", "z", "{", "|",
      "}", "~"
    >>

\* ord(c) of a printable ASCII character.
Ord(c) ==
    IF \E i \in 1..Len(AsciiFromBlank) : AsciiFromBlank[i] = c
    THEN 31 + CHOOSE i \in 1..Len(AsciiFromBlank) : AsciiFromBlank[i] = c
    ELSE 96 + CHOOSE i \in 1..Len(AsciiFromLetter) : AsciiFromLetter[i] = c

\* The str made of the given printable ASCII characters.
Typed(text) == [i \in 1..Len(text) |-> Ord(text[i])]

\* The code points of the given ranges <<first, last>>.
InRanges(ranges) == UNION {(ranges[i][1])..(ranges[i][2]) : i \in 1..Len(ranges)}

\* The characters with a lowercase mapping of one character (Unicode 14, the
\* character database of Python 3.11): <<first, last, step, delta>> maps
\* every step-th character from first to last to the one delta further.
LowerRanges ==
    <<
      <<65, 90, 1, 32>>, <<192, 214, 1, 32>>, <<216, 222, 1, 32>>,
      <<256, 302, 2, 1>>, <<306, 310, 2, 1>>, <<313, 327, 2, 1>>,
      <<330, 374, 2, 1>>, <<376, 376, 1, -121>>, <<377, 381, 2, 1>>,
      <<385, 385, 1, 210>>, <<386, 388, 2, 1>>, <<390, 390, 1, 206>>,
      <<391, 391, 1, 1>>, <<393, 394, 1, 205>>, <<395, 395, 1, 1>>,
      <<398, 398, 1, 79>>, <<399, 399, 1, 202>>, <<400, 400, 1, 203>>,
      <<401, 401, 1, 1>>, <<403, 403, 1, 205>>, <<404, 404, 1, 207>>,
      <<406, 406, 1, 211>>, <<407, 407, 1, 209>>, <<408, 408, 1, 1>>,
      <<412, 412, 1, 211>>, <<413, 413, 1, 213>>, <<415, 415, 1, 214>>,
      <<416, 420, 2, 1>>, <<422, 422, 1, 218>>, <<423, 423, 1, 1>>,
      <<425, 425, 1, 218>>, <<428, 428, 1, 1>>, <<430, 430, 1, 218>>,
      <<431, 431, 1, 1>>, <<433, 434, 1, 217>>, <<435, 437, 2, 1>>,
      <<439, 439, 1, 219>>, <<440, 440, 1, 1>>, <<444, 444, 1, 1>>,
      <<452, 452, 1, 2>>, <<453, 453, 1, 1>>, <<455, 455, 1, 2>>,
      <<456, 456, 1, 1>>, <<458, 458, 1, 2>>, <<459, 475, 2, 1>>,
      <<478, 494, 2, 1>>, <<497, 497, 1, 2>>, <<498, 500, 2, 1>>,
      <<502, 502, 1, -97>>, <<503, 503, 1, -56>>, <<504, 542, 2, 1>>,
      <<544, 544, 1, -130>>, <<546, 562, 2, 1>>, <<570, 570, 1, 10795>>,
      <<571, 571, 1, 1>>, <<573, 573, 1, -163>>, <<574, 574, 1, 10792>>,
      <<577, 577, 1, 1>>, <<579, 579, 1, -195>>, <<580, 580, 1, 69>>,
      <<581, 581, 1, 71>>, <<582, 590, 2, 1>>, <<880, 882, 2, 1>>,
      <<886, 886, 1, 1>>, <<895, 895, 1, 116>>, <<902, 902, 1, 38>>,
      <<904, 906, 1, 37>>, <<908, 908, 1, 64>>, <<910, 911, 1, 63>>,
      <<913, 929, 1, 32>>, <<931, 939, 1, 32>>, <<975, 975, 1, 8>>,
      <<984, 1006, 2, 1>>, <<1012, 1012, 1, -60>>, <<1015, 1015, 1, 1>>,
      <<1017, 1017, 1, -7>>, <<1018, 1018, 1, 1>>, <<1021, 1023, 1, -130>>,
      <<1024, 1039, 1, 80>>, <<1040, 1071, 1, 32>>, <<1120, 1152, 2, 1>>,
      <<1162, 1214, 2, 1>>, <<1216, 1216, 1, 15>>, <<1217, 1229, 2, 1>>,
      <<1232, 1326, 2, 1>>, <<1329, 1366, 1, 48>>, <<4256, 4293, 1, 7264>>,
      <<4295, 4295, 1, 7264>>, <<4301, 4301, 1, 7264>>,
      <<5024, 5103, 1, 38864>>, <<5104, 5109, 1, 8>>,
      <<7312, 7354, 1, -3008>>, <<7357, 7359, 1, -3008>>,
      <<7680, 7828, 2, 1>>, <<7838, 7838, 1, -7615>>, <<7840, 7934, 2, 1>>,
      <<7944, 7951, 1, -8>>, <<7960, 7965, 1, -8>>, <<7976, 7983, 1, -8>>,
      <<7992, 7999, 1, -8>>, <<8008, 8013, 1, -8>>, <<8025, 8031, 2, -8>>,
      <<8040, 8047, 1, -8>>, <<8072, 8079, 1, -8>>, <<8088, 8095, 1, -8>>,
      <<8104, 8111, 1, -8>>, <<8120, 8121, 1, -8>>, <<8122, 8123, 1, -74>>,
      <<8124, 8124, 1, -9>>, <<8136, 8139, 1, -86>>, <<8140, 8140, 1, -9>>,
      <<8152, 8153, 1, -8>>, <<8154, 8155, 1, -100>>, <<8168, 8169, 1, -8>>,
      <<8170, 8171, 1, -112>>, <<8172, 8172, 1, -7>>, <<8184, 8185, 1, -128>>,
      <<8186, 8187, 1, -126>>, <<8188, 8188, 1, -9>>,
      <<8486, 8486, 1, -7517>>, <<8490, 8490, 1, -8383>>,
      <<8491, 8491, 1, -8262>>, <<8498, 8498, 1, 28>>, <<8544, 8559, 1, 16>>,
      <<8579, 8579, 1, 1>>, <<9398, 9423, 1, 26>>, <<11264, 11311, 1, 48>>,
      <<11360, 11360, 1, 1>>, <<11362, 11362, 1, -10743>>,
      <<11363, 11363, 1, -3814>>, <<11364, 11364, 1, -10727>>,
      <<11367, 11371, 2, 1>>, <<11373, 11373, 1, -10780>>,
      <<11374, 11374, 1, -10749>>, <<11375, 11375, 1, -10783>>,
      <<11376, 11376, 1, -10782>>, <<11378, 11378, 1, 1>>,
      <<11381, 11381, 1, 1>>, <<11390, 11391, 1, -10815>>,
      <<11392, 11490, 2, 1>>, <<11499, 11501, 2, 1>>, <<11506, 11506, 1, 1>>,
      <<42560, 42604, 2, 1>>, <<42624, 42650, 2, 1>>, <<42786, 42798, 2, 1>>,
      <<42802, 42862, 2, 1>>, <<42873, 42875, 2, 1>>,
      <<42877, 42877, 1, -35332>>, <<42878, 42886, 2, 1>>,
      <<42891, 42891, 1, 1>>, <<42893, 42893, 1, -42280>>,
      <<42896, 42898, 2, 1>>, <<42902, 42920, 2, 1>>,
      <<42922, 42922, 1, -42308>>, <<42923, 42923, 1, -42319>>,
      <<42924, 42924, 1, -42315>>, <<42925, 42925, 1, -42305>>,
      <<42926, 42926, 1, -42308>>, <<42928, 42928, 1, -42258>>,
      <<42929, 42929, 1, -42282>>, <<42930, 42930, 1, -42261>>,
      <<42931, 42931, 1, 928>>, <<42932, 42946, 2, 1>>,
      <<42948, 42948, 1, -48>>, <<42949, 42949, 1, -42307>>,
      <<42950, 42950, 1, -35384>>, <<42951, 42953, 2, 1>>,
      <<42960, 42960, 1, 1>>, <<42966, 42968, 2, 1>>, <<42997, 42997, 1, 1>>,
      <<65313, 65338, 1, 32>>, <<66560, 66599, 1, 40>>,
      <<66736, 66771, 1, 40>>, <<66928, 66938, 1, 39>>,
      <<66940, 66954, 1, 39>>, <<66956, 66962, 1, 39>>,
      <<66964, 66965, 1, 39>>, <<68736, 68786, 1, 64>>,
      <<71840, 71871, 1, 32>>, <<93760, 93791, 1, 32>>,
      <<125184, 125217, 1, 34>>
    >>

\* The characters with the property Cased: a.islower(), a.isupper() or a
\* titlecase letter.
Cased ==
    InRanges(<<
      <<65, 90>>, <<97, 122>>, <<170, 170>>, <<181, 181>>, <<186, 186>>,
      <<192, 214>>, <<216, 246>>, <<248, 442>>, <<444, 447>>, <<452, 659>>,
      <<661, 696>>, <<704, 705>>, <<736, 740>>, <<837, 837>>, <<880, 883>>,
      <<886, 887>>, <<890, 893>>, <<895, 895>>, <<902, 902>>, <<904, 906>>,
      <<908, 908>>, <<910, 929>>, <<931, 1013>>, <<1015, 1153>>,
      <<1162, 1327>>, <<1329, 1366>>, <<1376, 1416>>, <<4256, 4293>>,
      <<4295, 4295>>, <<4301, 4301>>, <<4304, 4346>>, <<4349, 4351>>,
      <<5024, 5109>>, <<5112, 5117>>, <<7296, 7304>>, <<7312, 7354>>,
      <<7357, 7359>>, <<7424, 7615>>, <<7680, 7957>>, <<7960, 7965>>,
      <<7968, 8005>>, <<8008, 8013>>, <<8016, 8023>>, <<8025, 8025>>,
      <<8027, 8027>>, <<8029, 8029>>, <<8031, 8061>>, <<8064, 8116>>,
      <<8118, 8124>>, <<8126, 8126>>, <<8130, 8132>>, <<8134, 8140>>,
      <<8144, 8147>>, <<8150, 8155>>, <<8160, 8172>>, <<8178, 8180>>,
      <<8182, 8188>>, <<8305, 8305>>, <<8319, 8319>>, <<8336, 8348>>,
      <<8450, 8450>>, <<8455, 8455>>, <<8458, 8467>>, <<8469, 8469>>,
      <<8473, 8477>>, <<8484, 8484>>, <<8486, 8486>>, <<8488, 8488>>,
      <<8490, 8493>>, <<8495, 8500>>, <<8505, 8505>>, <<8508, 8511>>,
      <<8517, 8521>>, <<8526, 8526>>, <<8544, 8575>>, <<8579, 8580>>,
      <<9398, 9449>>, <<11264, 11492>>, <<11499, 11502>>, <<11506, 11507>>,
      <<11520, 11557>>, <<11559, 11559>>, <<11565, 11565>>, <<42560, 42605>>,
      <<42624, 42653>>, <<42786, 42887>>, <<42891, 42894>>, <<42896, 42954>>,
      <<42960, 42961>>, <<42963, 42963>>, <<42965, 42969>>, <<42997, 42998>>,
      <<43000, 43002>>, <<43824, 43866>>, <<43868, 43880>>, <<43888, 43967>>,
      <<64256, 64262>>, <<64275, 64279>>, <<65313, 65338>>, <<65345, 65370>>,
      <<66560, 66639>>, <<66736, 66771>>, <<66776, 66811>>, <<66928, 66938>>,
      <<66940, 66954>>, <<66956, 66962>>, <<66964, 66965>>, <<66967, 66977>>,
      <<66979, 66993>>, <<66995, 67001>>, <<67003, 67004>>, <<67456, 67456>>,
      <<67459, 67461>>, <<67463, 67504>>, <<67506, 67514>>, <<68736, 68786>>,
      <<68800, 68850>>, <<71840, 71903>>, <<93760, 93823>>,
      <<119808, 119892>>, <<119894, 119964>>, <<119966, 119967>>,
      <<119970, 119970>>, <<119973, 119974>>, <<119977, 119980>>,
      <<119982, 119993>>, <<119995, 119995>>, <<119997, 120003>>,
      <<120005, 120069>>, <<120071, 120074>>, <<120077, 120084>>,
      <<120086, 120092>>, <<120094, 120121>>, <<120123, 120126>>,
      <<120128, 120132>>, <<120134, 120134>>, <<120138, 120144>>,
      <<120146, 120485>>, <<120488, 120512>>, <<120514, 120538>>,
      <<120540, 120570>>, <<120572, 120596>>, <<120598, 120628>>,
      <<120630, 120654>>, <<120656, 120686>>, <<120688, 120712>>,
      <<120714, 120744>>, <<120746, 120770>>, <<120772, 120779>>,
      <<122624, 122633>>, <<122635, 122654>>, <<125184, 125251>>,
      <<127280, 127305>>, <<127312, 127337>>, <<127344, 127369>>
    >>)

\* The characters with the property Case_Ignorable.
CaseIgnorable ==
    InRanges(<<
      <<39, 39>>, <<46, 46>>, <<58, 58>>, <<94, 94>>, <<96, 96>>,
      <<168, 168>>, <<173, 173>>, <<175, 175>>, <<180, 180>>, <<183, 184>>,
      <<688, 879>>, <<884, 885>>, <<890, 890>>, <<900, 901>>, <<903, 903>>,
      <<1155, 1161>>, <<1369, 1369>>, <<1375, 1375>>, <<1425, 1469>>,
      <<1471, 1471>>, <<1473, 1474>>, <<1476, 1477>>, <<1479, 1479>>,
      <<1524, 1524>>, <<1536, 1541>>, <<1552, 1562>>, <<1564, 1564>>,
      <<1600, 1600>>, <<1611, 1631>>, <<1648, 1648>>, <<1750, 1757>>,
      <<1759, 1768>>, <<1770, 1773>>, <<1807, 1807>>, <<1809, 1809>>,
      <<1840, 1866>>, <<1958, 1968>>, <<2027, 2037>>, <<2042, 2042>>,
      <<2045, 2045>>, <<2070, 2093>>, <<2137, 2139>>, <<2184, 2184>>,
      <<2192, 2193>>, <<2200, 2207>>, <<2249, 2306>>, <<2362, 2362>>,
      <<2364, 2364>>, <<2369, 2376>>, <<2381, 2381>>, <<2385, 2391>>,
      <<2402, 2403>>, <<2417, 2417>>, <<2433, 2433>>, <<2492, 2492>>,
      <<2497, 2500>>, <<2509, 2509>>, <<2530, 2531>>, <<2558, 2558>>,
      <<2561, 2562>>, <<2620, 2620>>, <<2625, 2626>>, <<2631, 2632>>,
      <<2635, 2637>>, <<2641, 2641>>, <<2672, 2673>>, <<2677, 2677>>,
      <<2689, 2690>>, <<2748, 2748>>, <<2753, 2757>>, <<2759, 2760>>,
      <<2765, 2765>>, <<2786, 2787>>, <<2810, 2815>>, <<2817, 2817>>,
      <<2876, 2876>>, <<2879, 2879>>, <<2881, 2884>>, <<2893, 2893>>,
      <<2901, 2902>>, <<2914, 2915>>, <<2946, 2946>>, <<3008, 3008>>,
      <<3021, 3021>>, <<3072, 3072>>, <<3076, 3076>>, <<3132, 3132>>,
      <<3134, 3136>>, <<3142, 3144>>, <<3146, 3149>>, <<3157, 3158>>,
      <<3170, 3171>>, <<3201, 3201>>, <<3260, 3260>>, <<3263, 3263>>,
      <<3270, 3270>>, <<3276, 3277>>, <<3298, 3299>>, <<3328, 3329>>,
      <<3387, 3388>>, <<3393, 3396>>, <<3405, 3405>>, <<3426, 3427>>,
      <<3457, 3457>>, <<3530, 3530>>, <<3538, 3540>>, <<3542, 3542>>,
      <<3633, 3633>>, <<3636, 3642>>, <<3654, 3662>>, <<3761, 3761>>,
      <<3764, 3772>>, <<3782, 3782>>, <<3784, 3789>>, <<3864, 3865>>,
      <<3893, 3893>>, <<3895, 3895>>, <<3897, 3897>>, <<3953, 3966>>,
      <<3968, 3972>>, <<3974, 3975>>, <<3981, 3991>>, <<3993, 4028>>,
      <<4038, 4038>>, <<4141, 4144>>, <<4146, 4151>>, <<4153, 4154>>,
      <<4157, 4158>>, <<4184, 4185>>, <<4190, 4192>>, <<4209, 4212>>,
      <<4226, 4226>>, <<4229, 4230>>, <<4237, 4237>>, <<4253, 4253>>,
      <<4348, 4348>>, <<4957, 4959>>, <<5906, 5908>>, <<5938, 5939>>,
      <<5970, 5971>>, <<6002, 6003>>, <<6068, 6069>>, <<6071, 6077>>,
      <<6086, 6086>>, <<6089, 6099>>, <<6103, 6103>>, <<6109, 6109>>,
      <<6155, 6159>>, <<6211, 6211>>, <<6277, 6278>>, <<6313, 6313>>,
      <<6432, 6434>>, <<6439, 6440>>, <<6450, 6450>>, <<6457, 6459>>,
      <<6679, 6680>>, <<6683, 6683>>, <<6742, 6742>>, <<6744, 6750>>,
      <<6752, 6752>>, <<6754, 6754>>, <<6757, 6764>>, <<6771, 6780>>,
      <<6783, 6783>>, <<6823, 6823>>, <<6832, 6862>>, <<6912, 6915>>,
      <<6964, 6964>>, <<6966, 6970>>, <<6972, 6972>>, <<6978, 6978>>,
      <<7019, 7027>>, <<7040, 7041>>, <<7074, 7077>>, <<7080, 7081>>,
      <<7083, 7085>>, <<7142, 7142>>, <<7144, 7145>>, <<7149, 7149>>,
      <<7151, 7153>>, <<7212, 7219>>, <<7222, 7223>>, <<7288, 7293>>,
      <<7376, 7378>>, <<7380, 7392>>, <<7394, 7400>>, <<7405, 7405>>,
      <<7412, 7412>>, <<7416, 7417>>, <<7468, 7530>>, <<7544, 7544>>,
      <<7579, 7679>>, <<8125, 8125>>, <<8127, 8129>>, <<8141, 8143>>,
      <<8157, 8159>>, <<8173, 8175>>, <<8189, 8190>>, <<8203, 8207>>,
      <<8216, 8217>>, <<8228, 8228>>, <<8231, 8231>>, <<8234, 8238>>,
      <<8288, 8292>>, <<8294, 8303>>, <<8305, 8305>>, <<8319, 8319>>,
      <<8336, 8348>>, <<8400, 8432>>, <<11388, 11389>>, <<11503, 11505>>,
      <<11631, 11631>>, <<11647, 11647>>, <<11744, 11775>>, <<11823, 11823>>,
      <<12293, 12293>>, <<12330, 12333>>, <<12337, 12341>>, <<12347, 12347>>,
      <<12441, 12446>>, <<12540, 12542>>, <<40981, 40981>>, <<42232, 42237>>,
      <<42508, 42508>>, <<42607, 42610>>, <<42612, 42621>>, <<42623, 42623>>,
      <<42652, 42655>>, <<42736, 42737>>, <<42752, 42785>>, <<42864, 42864>>,
      <<42888, 42890>>, <<42994, 42996>>, <<43000, 43001>>, <<43010, 43010>>,
      <<43014, 43014>>, <<43019, 43019>>, <<43045, 43046>>, <<43052, 43052>>,
      <<43204, 43205>>, <<43232, 43249>>, <<43263, 43263>>, <<43302, 43309>>,
      <<43335, 43345>>, <<43392, 43394>>, <<43443, 43443>>, <<43446, 43449>>,
      <<43452, 43453>>, <<43471, 43471>>, <<43493, 43494>>, <<43561, 43566>>,
      <<43569, 43570>>, <<43573, 43574>>, <<43587, 43587>>, <<43596, 43596>>,
      <<43632, 43632>>, <<43644, 43644>>, <<43696, 43696>>, <<43698, 43700>>,
      <<43703, 43704>>, <<43710, 43711>>, <<43713, 43713>>, <<43741, 43741>>,
      <<43756, 43757>>, <<43763, 43764>>, <<43766, 43766>>, <<43867, 43871>>,
      <<43881, 43883>>, <<44005, 44005>>, <<44008, 44008>>, <<44013, 44013>>,
      <<64286, 64286>>, <<64434, 64450>>, <<65024, 65039>>, <<65043, 65043>>,
      <<65056, 65071>>, <<65106, 65106>>, <<65109, 65109>>, <<65279, 65279>>,
      <<65287, 65287>>, <<65294, 65294>>, <<65306, 65306>>, <<65342, 65342>>,
      <<65344, 65344>>, <<65392, 65392>>, <<65438, 65439>>, <<65507, 65507>>,
      <<65529, 65531>>, <<66045, 66045>>, <<66272, 66272>>, <<66422, 66426>>,
      <<67456, 67461>>, <<67463, 67504>>, <<67506, 67514>>, <<68097, 68099>>,
      <<68101, 68102>>, <<68108, 68111>>, <<68152, 68154>>, <<68159, 68159>>,
      <<68325, 68326>>, <<68900, 68903>>, <<69291, 69292>>, <<69446, 69456>>,
      <<69506, 69509>>, <<69633, 69633>>, <<69688, 69702>>, <<69744, 69744>>,
      <<69747, 69748>>, <<69759, 69761>>, <<69811, 69814>>, <<69817, 69818>>,
      <<69821, 69821>>, <<69826, 69826>>, <<69837, 69837>>, <<69888, 69890>>,
      <<69927, 69931>>, <<69933, 69940>>, <<70003, 70003>>, <<70016, 70017>>,
      <<70070, 70078>>, <<70089, 70092>>, <<70095, 70095>>, <<70191, 70193>>,
      <<70196, 70196>>, <<70198, 70199>>, <<70206, 70206>>, <<70367, 70367>>,
      <<70371, 70378>>, <<70400, 70401>>, <<70459, 70460>>, <<70464, 70464>>,
      <<70502, 70508>>, <<70512, 70516>>, <<70712, 70719>>, <<70722, 70724>>,
      <<70726, 70726>>, <<70750, 70750>>, <<70835, 70840>>, <<70842, 70842>>,
      <<70847, 70848>>, <<70850, 70851>>, <<71090, 71093>>, <<71100, 71101>>,
      <<71103, 71104>>, <<71132, 71133>>, <<71219, 71226>>, <<71229, 71229>>,
      <<71231, 71232>>, <<71339, 71339>>, <<71341, 71341>>, <<71344, 71349>>,
      <<71351, 71351>>, <<71453, 71455>>, <<71458, 71461>>, <<71463, 71467>>,
      <<71727, 71735>>, <<71737, 71738>>, <<71995, 71996>>, <<71998, 71998>>,
      <<72003, 72003>>, <<72148, 72151>>, <<72154, 72155>>, <<72160, 72160>>,
      <<72193, 72202>>, <<72243, 72248>>, <<72251, 72254>>, <<72263, 72263>>,
      <<72273, 72278>>, <<72281, 72283>>, <<72330, 72342>>, <<72344, 72345>>,
      <<72752, 72758>>, <<72760, 72765>>, <<72767, 72767>>, <<72850, 72871>>,
      <<72874, 72880>>, <<72882, 72883>>, <<72885, 72886>>, <<73009, 73014>>,
      <<73018, 73018>>, <<73020, 73021>>, <<73023, 73029>>, <<73031, 73031>>,
      <<73104, 73105>>, <<73109, 73109>>, <<73111, 73111>>, <<73459, 73460>>,
      <<78896, 78904>>, <<92912, 92916>>, <<92976, 92982>>, <<92992, 92995>>,
      <<94031, 94031>>, <<94095, 94111>>, <<94176, 94177>>, <<94179, 94180>>,
      <<110576, 110579>>, <<110581, 110587>>, <<110589, 110590>>,
      <<113821, 113822>>, <<113824, 113827>>, <<118528, 118573>>,
      <<118576, 118598>>, <<119143, 119145>>, <<119155, 119170>>,
      <<119173, 119179>>, <<119210, 119213>>, <<119362, 119364>>,
      <<121344, 121398>>, <<121403, 121452>>, <<121461, 121461>>,
      <<121476, 121476>>, <<121499, 121503>>, <<121505, 121519>>,
      <<122880, 122886>>, <<122888, 122904>>, <<122907, 122913>>,
      <<122915, 122916>>, <<122918, 122922>>, <<123184, 123197>>,
      <<123566, 123566>>, <<123628, 123631>>, <<125136, 125142>>,
      <<125252, 125259>>, <<127995, 127999>>, <<917505, 917505>>,
      <<917536, 917631>>, <<917760, 917999>>
    >>)

\* Position of the first character of the text that is not in the set, and of
\* the last one; Len + 1 and 0 if there is none.
FirstNotIn(chars, set) ==
    IF \E i \in 1..Len(chars) : chars[i] \notin set
    THEN CHOOSE i \in 1..Len(chars) :
            chars[i] \notin set /\ \A j \in 1..(i - 1) : chars[j] \in set
    ELSE Len(chars) + 1

LastNotIn(chars, set) ==
    IF \E i \in 1..Len(chars) : chars[i] \notin set
    THEN CHOOSE i \in 1..Len(chars) :
            chars[i] \notin set /\ \A j \in (i + 1)..Len(chars) : chars[j] \in set
    ELSE 0

\* The range of LowerRanges that maps c, 0 if none does.
LowerRange(c) ==
    IF \E i \in 1..Len(LowerRanges) :
          /\ c \in (LowerRanges[i][1])..(LowerRanges[i][2])
          /\ (c - LowerRanges[i][1]) % LowerRanges[i][3] = 0
    THEN CHOOSE i \in 1..Len(LowerRanges) :
            /\ c \in (LowerRanges[i][1])..(LowerRanges[i][2])
            /\ (c - LowerRanges[i][1]) % LowerRanges[i][3] = 0
    ELSE 0

\* The lowercase mapping of one character, as a text: the capital I with dot
\* above (U+0130) becomes i and a combining dot above, every other character
\* one character, itself when it has no mapping.  An ASCII character is
\* mapped by the ASCII table: A-Z to a-z.
LowerChar(c) ==
    IF c < 128 THEN (IF c \in 65..90 THEN <<c + 32>> ELSE <<c>>)
    ELSE IF c = 304 THEN <<105, 775>>
    ELSE IF LowerRange(c) = 0 THEN <<c>>
    ELSE <<c + LowerRanges[LowerRange(c)][4]>>

\* The capital sigma at position i ends a word: before it, past any
\* case-ignorable characters, stands a cased character, and after it, past
\* any case-ignorable characters, none.
final_sigma(chars, i) ==
    /\ LastNotIn(SubSeq(chars, 1, i - 1), CaseIgnorable) # 0
    /\ chars[LastNotIn(SubSeq(chars, 1, i - 1), CaseIgnorable)] \in Cased
    /\ \/ FirstNotIn(SubSeq(chars, i + 1, Len(chars)), CaseIgnorable) > Len(chars) - i
       \/ chars[i + FirstNotIn(SubSeq(chars, i + 1, Len(chars)), CaseIgnorable)]
             \notin Cased

\* The lowercase of the character at position i of the text: the capital
\* sigma (U+03A3) becomes the final small sigma at the end of a word and the
\* small sigma elsewhere.
LowerAt(chars, i) ==
    IF chars[i] = 931
    THEN (IF final_sigma(chars, i) THEN <<962>> ELSE <<963>>)
    ELSE LowerChar(chars[i])

RECURSIVE LowerFrom(_, _)
LowerFrom(chars, i) ==
    IF i > Len(chars) THEN <<>>
    ELSE LowerAt(chars, i) \o LowerFrom(chars, i + 1)

\* str.lower()
StrLower(chars) == LowerFrom(chars, 1)

\* The characters above 127 that str.isspace() holds for.
Spaces == {133, 160, 5760, 8239, 8287, 12288} \cup (8192..8202) \cup (8232..8233)

\* The digit zero of each script: the ten decimal digits 0-9 of a script are
\* the ten characters from its zero on.
DecimalZeros ==
    {
     1632, 1776, 1984, 2406, 2534, 2662, 2790, 2918, 3046, 3174, 3302, 3430,
     3558, 3664, 3792, 3872, 4160, 4240, 6112, 6160, 6470, 6608, 6784, 6800,
     6992, 7088, 7232, 7248, 42528, 43216, 43264, 43472, 43504, 43600, 44016,
     65296, 66720, 68912, 69734, 69872, 69942, 70096, 70384, 70736, 70864,
     71248, 71360, 71472, 71904, 72016, 72784, 73040, 73120, 92768, 92864,
     93008, 120782, 120792, 120802, 120812, 120822, 123200, 123632, 125264,
     130032
    }

\* The decimal digits above 127.
Decimals == UNION {z..(z + 9) : z \in DecimalZeros}

\* What int() and float() read a character of a text that is not all ASCII
\* as: a character below 127 as itself, any other space as a blank, any other
\* decimal digit as the ASCII digit of its value, and every other character,
\* the delete character (127) included, as a question mark (63).
AsciiOf(c) ==
    IF c < 127 THEN c
    ELSE IF c \in Spaces THEN 32
    ELSE IF c \in Decimals THEN 48 + c - (CHOOSE z \in DecimalZeros : c \in z..(z + 9))
    ELSE 63

\* The characters int() and float() read as themselves, as a blank or as a
\* digit in a text that is not all ASCII.
Readable == (0..126) \cup Spaces \cup Decimals

\* The text int() and float() parse: an ASCII text (every character at most
\* 127) as it is, of any other text the characters read as ASCII, up to and
\* with the first one that is neither below 127, a space nor a decimal digit.
TransformDecimalAndSpaceToASCII(chars) ==
    IF \A i \in 1..Len(chars) : chars[i] <= 127 THEN chars
    ELSE [i \in 1..(IF FirstNotIn(chars, Readable) > Len(chars) THEN Len(chars)
                    ELSE FirstNotIn(chars, Readable))
            |-> AsciiOf(chars[i])]

\* The ASCII digits 0-9.
Digits == 48..57

IsDigit(c) == c \in Digits

DigitValue(c) == c - 48

\* The ASCII white space the parsers of int() and float() skip at either end
\* of the text: tab, newline, vertical tab, form feed, return and blank.
Whitespace == {9, 10, 11, 12, 13, 32}

StripLeft(chars) == SubSeq(chars, FirstNotIn(chars, Whitespace), Len(chars))

StripRight(chars) == SubSeq(chars, 1, LastNotIn(chars, Whitespace))

RECURSIVE DigitsValue(_, _)
DigitsValue(chars, acc) ==
    IF chars = <<>> THEN acc
    ELSE DigitsValue(Tail(chars), 10 * acc + DigitValue(Head(chars)))

\* The digit part of a numeric literal: decimal digits, with single underscores
\* (95) allowed between two digits.
IsDigitPart(chars) ==
    /\ chars # <<>>
    /\ IsDigit(chars[1])
    /\ IsDigit(chars[Len(chars)])
    /\ \A i \in 1..Len(chars) :
          \/ IsDigit(chars[i])
          \/ (chars[i] = 95 /\ IsDigit(chars[i - 1]) /\ IsDigit(chars[i + 1]))

\* The digits of a digit part, underscores dropped.
DigitsOf(chars) == SelectSeq(chars, IsDigit)

StripZeros(digits) == SubSeq(digits, FirstNotIn(digits, {48}), Len(digits))

StripTrailingZeros(digits) == SubSeq(digits, 1, LastNotIn(digits, {48}))

\* The longest digit string int() converts (sys.int_info.default_max_str_digits).
int_max_str_digits == 4300

\* The sign in front of a numeric literal, minus (45) or plus (43), and the
\* literal without it.
IsNegative(t) == t # <<>> /\ Head(t) = 45

Unsigned(t) == IF t # <<>> /\ Head(t) \in {43, 45} THEN Tail(t) ELSE t

\* The value of the integer literal body: ValueError unless it is a digit part
\* of at most int_max_str_digits digits; [value |-> n]; an integer of more
\* than nine significant digits is carried as its digits, [bigint, negative].
IntValue(body, negative) ==
    IF ~IsDigitPart(body) THEN ValueError
    ELSE IF Len(DigitsOf(body)) > int_max_str_digits THEN ValueError
    ELSE IF Len(StripZeros(DigitsOf(body))) > 9
         THEN [bigint |-> StripZeros(DigitsOf(body)), negative |-> negative]
    ELSE [value |-> IF negative THEN 0 - DigitsValue(StripZeros(DigitsOf(body)), 0)
                    ELSE DigitsValue(StripZeros(DigitsOf(body)), 0)]

\* int(text): the text read as ASCII, white space stripped, an optional sign,
\* then a digit part; anything else raises ValueError.
IntOf(chars) ==
    IntValue(Unsigned(StripRight(StripLeft(TransformDecimalAndSpaceToASCII(chars)))),
             IsNegative(StripRight(StripLeft(TransformDecimalAndSpaceToASCII(chars)))))

\* Position of the first character of the text that is in the set, 0 if none.
FirstOf(chars, set) ==
    IF \E i \in 1..Len(chars) : chars[i] \in set
    THEN CHOOSE i \in 1..Len(chars) :
            chars[i] \in set /\ \A j \in 1..(i - 1) : chars[j] \notin set
    ELSE 0

\* The text before and after the first character that is in the set; the
\* whole text and nothing if there is none.
BeforeFirst(chars, set) ==
    IF FirstOf(chars, set) = 0 THEN chars
    ELSE SubSeq(chars, 1, FirstOf(chars, set) - 1)

AfterFirst(chars, set) ==
    IF FirstOf(chars, set) = 0 THEN <<>>
    ELSE SubSeq(chars, FirstOf(chars, set) + 1, Len(chars))

\* The parts of a decimal float literal, given the text before the point,
\* the text after it, whether there is an exponent and its text: ValueError
\* when they make no literal.  Either side of the point may be missing, not
\* both; the exponent is an optional sign and a digit part.
PartsOf(intpart, fracpart, hasexp, expo) ==
    IF hasexp /\ ~IsDigitPart(Unsigned(expo)) THEN ValueError
    ELSE IF intpart = <<>> /\ fracpart = <<>> THEN ValueError
    ELSE IF intpart # <<>> /\ ~IsDigitPart(intpart) THEN ValueError
    ELSE IF fracpart # <<>> /\ ~IsDigitPart(fracpart) THEN ValueError
    ELSE [int |-> DigitsOf(intpart), frac |-> DigitsOf(fracpart),
          eneg |-> IsNegative(expo),
          edigits |-> StripZeros(DigitsOf(Unsigned(expo)))]

\* The parts of a decimal float literal without its sign: the mantissa ends
\* at the first e (101) or E (69), its integer part at the first point (46).
DecimalParts(body) ==
    PartsOf(BeforeFirst(BeforeFirst(body, {101, 69}), {46}),
            AfterFirst(BeforeFirst(body, {101, 69}), {46}),
            FirstOf(body, {101, 69}) # 0,
            AfterFirst(body, {101, 69}))

(***************************************************************************)
(* Natural numbers of any size, for the arithmetic of doubles: a number is *)
(* the sequence of its limbs of 15 bits, least significant first, without  *)
(* a leading zero limb; zero is the empty sequence.                        *)
(***************************************************************************)

Limb == 32768

Max(a, b) == IF a >= b THEN a ELSE b

Min(a, b) == IF a <= b THEN a ELSE b

\* n with the sign put in front.
Signed(negative, n) == IF negative THEN 0 - n ELSE n

NatOfInt(n) ==
    IF n = 0 THEN <<>>
    ELSE IF n < Limb THEN <<n>>
    ELSE IF n < Limb * Limb THEN <<n % Limb, n \div Limb>>
    ELSE <<n % Limb, (n \div Limb) % Limb, n \div (Limb * Limb)>>

LimbAt(a, i) == IF i \in 1..Len(a) THEN a[i] ELSE 0

\* The integer of a number below 2^31.
IntOfNat(a) == LimbAt(a, 1) + LimbAt(a, 2) * Limb + LimbAt(a, 3) * Limb * Limb

NatTrim(a) == SubSeq(a, 1, LastNotIn(a, {0}))

SumAt(a, b, i) == LimbAt(a, i) + LimbAt(b, i)

\* The addition of the limbs below i carries into limb i.
CarryInto(a, b, i) ==
    \E j \in 1..(i - 1) :
        /\ SumAt(a, b, j) >= Limb
        /\ \A k \in (j + 1)..(i - 1) : SumAt(a, b, k) = Limb - 1

NatAdd(a, b) ==
    NatTrim([i \in 1..(Max(Len(a), Len(b)) + 1) |->
                (SumAt(a, b, i) + (IF CarryInto(a, b, i) THEN 1 ELSE 0)) % Limb])

\* The subtraction of the limbs below i borrows from limb i.
BorrowFrom(a, b, i) ==
    \E j \in 1..(i - 1) :
        /\ a[j] < LimbAt(b, j)
        /\ \A k \in (j + 1)..(i - 1) : a[k] = LimbAt(b, k)

\* a - b, for a >= b.
NatSub(a, b) ==
    NatTrim([i \in 1..Len(a) |->
                (a[i] - LimbAt(b, i) - (IF BorrowFrom(a, b, i) THEN 1 ELSE 0) + Limb)
                    % Limb])

\* a * 2^(15 q), a not zero.
NatShiftLimbs(a, q) == [i \in 1..q |-> 0] \o a

\* a * m, for m <= 2^15.
NatMulSmall(a, m) ==
    NatAdd([i \in 1..Len(a) |-> (a[i] * m) % Limb],
           NatShiftLimbs([i \in 1..Len(a) |-> (a[i] * m) \div Limb], 1))

\* a times the limbs lo..hi of b, in their places.
RECURSIVE MulRange(_, _, _, _)
MulRange(a, b, lo, hi) ==
    IF lo = hi THEN NatTrim(NatShiftLimbs(NatMulSmall(a, b[lo]), lo - 1))
    ELSE NatAdd(MulRange(a, b, lo, (lo + hi) \div 2),
                MulRange(a, b, (lo + hi) \div 2 + 1, hi))

NatMul(a, b) ==
    IF a = <<>> \/ b = <<>> THEN <<>>
    ELSE MulRange(IF Len(a) < Len(b) THEN b ELSE a,
                  IF Len(a) < Len(b) THEN a ELSE b,
                  1, Min(Len(a), Len(b)))

RECURSIVE NatPow5(_)
NatPow5(n) ==
    IF n <= 6 THEN <<5^n>>
    ELSE NatMul(NatPow5(n \div 2), NatPow5(n - n \div 2))

\* a * 2^r, for r < 15.
ShlBits(a, r) ==
    NatTrim([i \in 1..(Len(a) + 1) |->
                ((LimbAt(a, i) * 2^r) % Limb) + ((LimbAt(a, i - 1) * 2^r) \div Limb)])

\* a * 2^k
NatShl(a, k) == IF a = <<>> THEN <<>> ELSE NatShiftLimbs(ShlBits(a, k % 15), k \div 15)

ShrBits(a, r) ==
    NatTrim([i \in 1..Len(a) |->
                (a[i] \div 2^r) + (LimbAt(a, i + 1) % 2^r) * 2^(15 - r)])

\* floor(a / 2^k)
NatShr(a, k) == ShrBits(SubSeq(a, k \div 15 + 1, Len(a)), k % 15)

IntBitLen(n) == CHOOSE k \in 0..15 : (n = 0 /\ k = 0) \/ (k > 0 /\ 2^(k - 1) <= n /\ n < 2^k)

\* The number of bits of a: 0 for zero, else floor(log2(a)) + 1.
NatBitLen(a) == IF a = <<>> THEN 0 ELSE 15 * (Len(a) - 1) + IntBitLen(a[Len(a)])

\* Bit k of a, bit 0 the least significant.
NatBit(a, k) == (LimbAt(a, k \div 15 + 1) \div 2^(k % 15)) % 2

\* The k low bits of a are all zero.
NatLowZero(a, k) ==
    \A i \in 1..Len(a) :
        /\ i <= k \div 15 => a[i] = 0
        /\ i = k \div 15 + 1 => a[i] % 2^(k % 15) = 0

IntTrailingZeros(n) == CHOOSE k \in 0..14 : n % 2^k = 0 /\ (n \div 2^k) % 2 = 1

\* The number of zero bits at the low end of a, a not zero.
NatTrailingZeros(a) ==
    15 * (FirstNotIn(a, {0}) - 1) + IntTrailingZeros(a[FirstNotIn(a, {0})])

TopDiff(a, b) ==
    CHOOSE i \in 1..Len(a) : a[i] # b[i] /\ \A j \in (i + 1)..Len(a) : a[j] = b[j]

NatLess(a, b) ==
    \/ Len(a) < Len(b)
    \/ Len(a) = Len(b) /\ a # b /\ a[TopDiff(a, b)] < b[TopDiff(a, b)]

\* The remainder of the limbs i.. of a, read as a number, divided by d <= 2^15.
RECURSIVE RemFrom(_, _, _)
RemFrom(a, d, i) ==
    IF i > Len(a) THEN 0 ELSE (RemFrom(a, d, i + 1) * Limb + a[i]) % d

\* floor(a / d), for d <= 2^15.
NatDivSmall(a, d) ==
    NatTrim([i \in 1..Len(a) |-> (RemFrom(a, d, i + 1) * Limb + a[i]) \div d])

\* The number written with the decimal digits.
RECURSIVE NatOfDigits(_)
NatOfDigits(digits) ==
    IF Len(digits) <= 9 THEN NatOfInt(DigitsValue(digits, 0))
    ELSE NatAdd(NatMul(NatOfDigits(SubSeq(digits, 1, Len(digits) \div 2)),
                       NatShl(NatPow5(Len(digits) - Len(digits) \div 2),
                              Len(digits) - Len(digits) \div 2)),
                NatOfDigits(SubSeq(digits, Len(digits) \div 2 + 1, Len(digits))))

(***************************************************************************)
(* float: IEEE 754 binary64.  A number is [value |-> n] when it is a whole *)
(* number below 2^30 in size, else [float |-> "double", negative,          *)
(* mantissa, exponent], the number mantissa * 2^exponent with the odd      *)
(* mantissa given by its limbs (none and exponent 0 for -0.0),             *)
(* or [float |-> "inf", negative], or [float |-> "nan"].                   *)
(***************************************************************************)

\* sys.float_info: mant_dig, max_exp, and the exponent of the least
\* positive double, 2^-1074.
mant_dig == 53
max_exp == 1024
min_quantum == 1074

NaN == [float |-> "nan"]

Inf(negative) == [float |-> "inf", negative |-> negative]

Zero(negative) ==
    IF negative
    THEN [float |-> "double", negative |-> TRUE, mantissa |-> <<>>, exponent |-> 0]
    ELSE [value |-> 0]

\* The double of the odd mantissa m times 2^e.
Canonical(negative, m, e) ==
    IF e >= 0 /\ NatBitLen(m) + e <= 30
    THEN [value |-> Signed(negative, IntOfNat(NatShl(m, e)))]
    ELSE [float |-> "double", negative |-> negative, mantissa |-> m, exponent |-> e]

\* The double q * 2^u, given the number tz of zero bits at the low end of q.
OddPart(negative, q, u, tz) == Canonical(negative, NatShr(q, tz), u + tz)

\* The double q * 2^u, for q of at most 53 bits, or 2^53, and u >= -1074.
MakeDouble(negative, q, u) ==
    IF q = <<>> THEN Zero(negative)
    ELSE IF NatBitLen(q) + u > max_exp THEN Inf(negative)
    ELSE OddPart(negative, q, u, NatTrailingZeros(q))

\* The exponent of the last place of the double nearest to a number in
\* [2^E, 2^(E+1)).
Quantum(E) == Max(E - (mant_dig - 1), 0 - min_quantum)

\* n with its sh low bits rounded away, to nearest, ties to even.
RoundBits(n, sh) ==
    NatAdd(NatShr(n, sh),
           IF NatBit(n, sh - 1) = 1 /\ (~NatLowZero(n, sh - 1) \/ NatBit(n, sh) = 1)
           THEN <<1>> ELSE <<>>)

\* The double nearest to n * 2^e2, n not zero, given the number sh of low bits
\* of n that do not fit.
RoundDrop(negative, n, e2, sh) ==
    MakeDouble(negative, IF sh <= 0 THEN n ELSE RoundBits(n, sh), e2 + Max(sh, 0))

\* The double nearest to n * 2^e2, n not zero, given E = floor(log2 of it).
RoundAt(negative, n, e2, E) ==
    IF E >= max_exp THEN Inf(negative)
    ELSE RoundDrop(negative, n, e2, Quantum(E) - e2)

\* The double nearest to n * 2^e2.
RoundShift(negative, n, e2) ==
    IF n = <<>> THEN Zero(negative)
    ELSE RoundAt(negative, n, e2, NatBitLen(n) - 1 + e2)

\* floor(log2(n / m)), given t = bits of n - bits of m.
RatioLog(n, m, t) ==
    IF NatLess(NatShl(n, Max(0 - t, 0)), NatShl(m, Max(t, 0))) THEN t - 1 ELSE t

\* One step of the long division: the bit i of the quotient, given di, the
\* divisor times 2^i.
DivStep(qr, di, i) ==
    IF NatLess(qr.r, di) THEN qr
    ELSE [q |-> NatAdd(qr.q, NatShl(<<1>>, i)), r |-> NatSub(qr.r, di)]

\* Long division by d, one bit per step: quotient and remainder after the n
\* steps that settle the bits i + n - 1 down to i of the quotient.  Nothing is
\* left to do once the remainder is zero.
RECURSIVE DivBits(_, _, _, _)
DivBits(qr, d, i, n) ==
    IF n = 0 \/ qr.r = <<>> THEN qr
    ELSE DivBits(DivStep(qr, NatShl(d, i + n - 1), i + n - 1), d, i, n - 1)

\* Quotient and remainder of a / d, for a / d < 2^53.
Divide(a, d) ==
    IF Len(d) = 1
    THEN [q |-> NatDivSmall(a, d[1]), r |-> NatOfInt(RemFrom(a, d[1], 1))]
    ELSE DivBits([q |-> <<>>, r |-> a], d, 0, mant_dig)

\* The quotient rounded to nearest, ties to even, given the quotient q and
\* twice the remainder of the division by d.
RoundQuotient(q, r2, d) ==
    NatAdd(q, IF NatLess(d, r2) \/ (d = r2 /\ NatBit(q, 0) = 1) THEN <<1>> ELSE <<>>)

\* The double nearest to (qr.q + qr.r / d) * 2^u.
RoundRemainder(negative, qr, d, u) ==
    MakeDouble(negative, RoundQuotient(qr.q, NatShl(qr.r, 1), d), u)

\* The double nearest to a / d * 2^u, for a / d < 2^53.
RoundDivide(negative, a, d, u) == RoundRemainder(negative, Divide(a, d), d, u)

\* The double nearest to n / m * 2^e2, given E = floor(log2 of it).
RoundRatioAt(negative, n, m, e2, E) ==
    IF E >= max_exp THEN Inf(negative)
    ELSE IF E < 0 - min_quantum - 1 THEN Zero(negative)
    ELSE RoundDivide(negative,
                     NatShl(n, Max(e2 - Quantum(E), 0)),
                     NatShl(m, Max(Quantum(E) - e2, 0)),
                     Quantum(E))

\* The double nearest to n / m * 2^e2, m not zero.
RoundRatio(negative, n, m, e2) ==
    IF n = <<>> THEN Zero(negative)
    ELSE IF m = <<1>> THEN RoundShift(negative, n, e2)
    ELSE RoundRatioAt(negative, n, m, e2,
                      RatioLog(n, m, NatBitLen(n) - NatBitLen(m)) + e2)

Kind(x) == IF "value" \in DOMAIN x THEN "double" ELSE x.float

IsWhole(x) == "value" \in DOMAIN x

IsZero(x) ==
    IF IsWhole(x) THEN x.value = 0
    ELSE x.float = "double" /\ x.mantissa = <<>>

Neg(x) == IF IsWhole(x) THEN x.value < 0 ELSE x.negative

\* Mantissa and exponent of a finite number: it is Mant * 2^Expo in size.
Mant(x) == IF IsWhole(x) THEN NatOfInt(Signed(x.value < 0, x.value)) ELSE x.mantissa

Expo(x) == IF IsWhole(x) THEN 0 ELSE x.exponent

IsSmall(x) == IsWhole(x) /\ x.value # 0 /\ x.value < Limb /\ 0 - x.value < Limb

\* x * y of two floats.
FMul(x, y) ==
    IF Kind(x) = "nan" \/ Kind(y) = "nan" THEN NaN
    ELSE IF Kind(x) = "inf" \/ Kind(y) = "inf"
         THEN (IF IsZero(x) \/ IsZero(y) THEN NaN ELSE Inf(Neg(x) # Neg(y)))
    ELSE IF IsSmall(x) /\ IsSmall(y) THEN [value |-> x.value * y.value]
    ELSE RoundShift(Neg(x) # Neg(y), NatMul(Mant(x), Mant(y)), Expo(x) + Expo(y))

\* x / y of two floats.
FDiv(x, y) ==
    IF IsZero(y) THEN ZeroDivisionError
    ELSE IF Kind(x) = "nan" \/ Kind(y) = "nan" THEN NaN
    ELSE IF Kind(x) = "inf"
         THEN (IF Kind(y) = "inf" THEN NaN ELSE Inf(Neg(x) # Neg(y)))
    ELSE IF Kind(y) = "inf" THEN Zero(Neg(x) # Neg(y))
    ELSE IF IsWhole(x) /\ IsWhole(y) /\ x.value # 0 /\ y.value > 0
            /\ x.value % y.value = 0
         THEN [value |-> x.value \div y.value]
    ELSE RoundRatio(Neg(x) # Neg(y), Mant(x), Mant(y), Expo(x) - Expo(y))

\* The larger and the smaller of two naturals.
NatMax(a, b) == IF NatLess(a, b) THEN b ELSE a

NatMin(a, b) == IF NatLess(a, b) THEN a ELSE b

\* The sum of a * 2^e with sign nega and b * 2^e with sign negb.
AddAligned(nega, a, negb, b, e) ==
    IF nega # negb /\ a = b THEN Zero(FALSE)
    ELSE RoundShift(IF NatLess(a, b) THEN negb ELSE nega,
                    IF nega = negb THEN NatAdd(a, b)
                    ELSE NatSub(NatMax(a, b), NatMin(a, b)),
                    e)

\* The sum of two finite floats, given the lesser e of their exponents.
AddAt(x, y, e) ==
    AddAligned(Neg(x), NatShl(Mant(x), Expo(x) - e), Neg(y), NatShl(Mant(y), Expo(y) - e), e)

\* x + y of two floats.
FAdd(x, y) ==
    IF Kind(x) = "nan" \/ Kind(y) = "nan" THEN NaN
    ELSE IF Kind(x) = "inf"
         THEN (IF Kind(y) = "inf" /\ Neg(x) # Neg(y) THEN NaN ELSE x)
    ELSE IF Kind(y) = "inf" THEN y
    ELSE IF IsWhole(x) /\ IsWhole(y) /\ x.value + y.value \in (1 - 2^30)..(2^30 - 1)
         THEN [value |-> x.value + y.value]
    ELSE IF IsZero(x) /\ IsZero(y) THEN Zero(Neg(x) /\ Neg(y))
    ELSE AddAt(x, y, Min(Expo(x), Expo(y)))

\* The sizes of two finite floats compare as x < y.
MagLess(x, y, e) ==
    NatLess(NatShl(Mant(x), Expo(x) - e), NatShl(Mant(y), Expo(y) - e))

\* x < y of two floats.
FLess(x, y) ==
    IF Kind(x) = "nan" \/ Kind(y) = "nan" THEN FALSE
    ELSE IF Kind(x) = "inf" THEN x.negative /\ ~(Kind(y) = "inf" /\ y.negative)
    ELSE IF Kind(y) = "inf" THEN ~y.negative
    ELSE IF IsWhole(x) /\ IsWhole(y) THEN x.value < y.value
    ELSE IF Neg(x) # Neg(y) THEN Neg(x) /\ ~(IsZero(x) /\ IsZero(y))
    ELSE MagLess(IF Neg(x) THEN y ELSE x, IF Neg(x) THEN x ELSE y,
                 Min(Expo(x), Expo(y)))

\* x <= y of two floats.
FLessEq(x, y) ==
    IF Kind(x) = "nan" \/ Kind(y) = "nan" THEN FALSE ELSE ~FLess(y, x)

\* The double nearest to the decimal number digits * 10^x.
DecimalToDouble(negative, digits, x) ==
    RoundRatio(negative,
               NatMul(NatOfDigits(digits), NatPow5(Max(x, 0))),
               NatPow5(Max(0 - x, 0)),
               x)

\* The number of digits of a decimal literal that can decide its rounding: no
\* double and no midpoint of two doubles has more significant digits.  Of a
\* longer literal the digits past this many count only as "not all zero".
MaxSignificant == 800

\* The value of a decimal literal, given the digits m of the literal without
\* leading and trailing zeros, read as 0.m, and the power of ten k that goes
\* with them (huge: the exponent written has more than nine digits, of sign
\* eneg): the double nearest to 0.m * 10^k, ties to even; inf beyond the
\* largest double, zero below half the smallest.
ValueOfDigits(m, k, huge, eneg, negative) ==
    IF m = <<>> THEN Zero(negative)
    ELSE IF huge THEN (IF eneg THEN Zero(negative) ELSE Inf(negative))
    ELSE IF k > 310 THEN Inf(negative)
    ELSE IF k < 0 - 325 THEN Zero(negative)
    ELSE DecimalToDouble(negative,
                         IF Len(m) > MaxSignificant
                         THEN SubSeq(m, 1, MaxSignificant) \o <<49>>
                         ELSE m,
                         k - Min(Len(m), MaxSignificant + 1))

\* The exponent written in the literal, 0 if none or if it has more than nine
\* digits.
ExponentOf(parts) ==
    IF Len(parts.edigits) > 9 THEN 0
    ELSE Signed(parts.eneg, DigitsValue(parts.edigits, 0))

\* The digits of the literal without its leading zeros.
AllDigits(parts) == StripZeros(parts.int \o StripTrailingZeros(parts.frac))

\* The value of a decimal literal, given its parts and the digits of the
\* literal without leading zeros.
DecimalOf(parts, digits, negative) ==
    ValueOfDigits(StripTrailingZeros(digits),
                  ExponentOf(parts) - Len(StripTrailingZeros(parts.frac)) + Len(digits),
                  Len(parts.edigits) > 9, parts.eneg, negative)

\* The value of the parts of a float literal; ValueError when they make no
\* literal.
DecimalValue(parts, negative) ==
    IF IsError(parts) THEN ValueError
    ELSE DecimalOf(parts, AllDigits(parts), negative)

\* The text is the word, in any case of its ASCII letters.
IsWord(chars, word) ==
    /\ Len(chars) = Len(word)
    /\ \A i \in 1..Len(word) :
          (IF chars[i] \in 65..90 THEN chars[i] + 32 ELSE chars[i]) = word[i]

\* The words float() reads as infinity and as not a number.
FloatWords ==
    [inf |-> Typed(<<"i", "n", "f">>),
     infinity |-> Typed(<<"i", "n", "f", "i", "n", "i", "t", "y">>),
     nan |-> Typed(<<"n", "a", "n">>)]

\* The value of the float literal body: inf, infinity or nan in any case, or a
\* decimal literal; anything else raises ValueError.
FloatValue(body, negative) ==
    IF IsWord(body, FloatWords.inf) \/ IsWord(body, FloatWords.infinity)
    THEN Inf(negative)
    ELSE IF IsWord(body, FloatWords.nan) THEN NaN
    ELSE DecimalValue(DecimalParts(body), negative)

\* The value of a float literal with its sign.
SignedFloat(text) == FloatValue(Unsigned(text), IsNegative(text))

\* float(text): the text read as ASCII, white space stripped, an optional
\* sign, then the literal.
FloatOf(chars) ==
    SignedFloat(StripRight(StripLeft(TransformDecimalAndSpaceToASCII(chars))))

(***************************************************************************)
(* Global resources                                                        *)
(***************************************************************************)

\* The float a literal of the source text denotes.
Literal(text) == FloatOf(Typed(text))

\* The float of a whole number.
Whole(n) == [value |-> n]

\* Fee rate of each card, in percent: the literals 0.8, 1.0 and 0.5.
card_rate ==
    [amex |-> Literal(<<"0", ".", "8">>),
     visa |-> Literal(<<"1", ".", "0">>),
     discover |-> Literal(<<"0", ".", "5">>)]

\* Keys of card_rate in dictionary (insertion) order, as list(card_rate.keys()).
card_rate_keys == <<"amex", "visa", "discover">>

\* The characters of each key of card_rate.
KeyText ==
    [amex |-> Typed(<<"a", "m", "e", "x">>),
     visa |-> Typed(<<"v", "i", "s", "a">>),
     discover |-> Typed(<<"d", "i", "s", "c", "o", "v", "e", "r">>)]

\* Convenience fee rate, in percent: the literal 0.2.
convenience_fee_rate == Literal(<<"0", ".", "2">>)

(***************************************************************************)
(* datetime.date                                                           *)
(***************************************************************************)

MINYEAR == 1
MAXYEAR == 9999

IsLeap(year) == (year % 4 = 0) /\ ((year % 100 # 0) \/ (year % 400 = 0))

DaysInMonth(year, month) ==
    IF month = 2 THEN (IF IsLeap(year) THEN 29 ELSE 28)
    ELSE IF month \in {4, 6, 9, 11} THEN 30 ELSE 31

\* date.replace(year=..., month=..., day=...): a new date, validated.
DateReplace(year, month, day) ==
    IF year \notin MINYEAR..MAXYEAR THEN ValueError
    ELSE IF month \notin 1..12 THEN ValueError
    ELSE IF day \notin 1..DaysInMonth(year, month) THEN ValueError
    ELSE [year |-> year, month |-> month, day |-> day]

\* date - datetime.timedelta(days=1)
DateMinusOneDay(d) ==
    IF d.day > 1 THEN [d EXCEPT !.day = d.day - 1]
    ELSE IF d.month > 1
         THEN [year |-> d.year, month |-> d.month - 1,
               day |-> DaysInMonth(d.year, d.month - 1)]
         ELSE IF d.year > MINYEAR
              THEN [year |-> d.year - 1, month |-> 12, day |-> 31]
              ELSE OverflowError

\* Comparison of dates: chronological order.
DateLT(a, b) ==
    \/ a.year < b.year
    \/ a.year = b.year /\ a.month < b.month
    \/ a.year = b.year /\ a.month = b.month /\ a.day < b.day

DateGT(a, b) == DateLT(b, a)
DateLE(a, b) == ~DateLT(b, a)
DateGE(a, b) == ~DateLT(a, b)

Pad(n, width) ==
    LET s == ToString(n)
        zeros == [k \in 0..3 |-> CASE k = 0 -> ""
                                    [] k = 1 -> "0"
                                    [] k = 2 -> "00"
                                    [] k = 3 -> "000"]
        len == IF n < 10 THEN 1 ELSE IF n < 100 THEN 2 ELSE IF n < 1000 THEN 3 ELSE 4
    IN IF len >= width THEN s ELSE zeros[width - len] \o s

\* str(date): ISO format YYYY-MM-DD.
DateStr(d) == Pad(d.year, 4) \o "-" \o Pad(d.month, 2) \o "-" \o Pad(d.day, 2)

(***************************************************************************)
(* class Purchase                                                          *)
(***************************************************************************)

\* The failed assertion of the constructor: names the offending card and the
\* supported types.
AssertionError(card) ==
    [error |-> "AssertionError", message |-> "Unsupported card type",
     card |-> card, supported |-> card_rate_keys]

\* TransactionFee charged whatever the status.
TransactionFee_IgnoreStatus(card, amount, status) ==
    FDiv(FMul(amount, card_rate[card]), Whole(100))

TransactionFee(card, amount, status) ==
    IF ~status THEN FDiv(FMul(amount, card_rate[card]), Whole(100)) ELSE Whole(0)

ConvenienceFee(amount, status) ==
    IF ~status THEN FDiv(FMul(amount, convenience_fee_rate), Whole(100)) ELSE Whole(0)

\* First day of the month after the date's month, before one day is taken off.
NextMonthStart(date) ==
    IF date.month = 12
    THEN DateReplace(date.year + 1, 1, 1)
    ELSE DateReplace(date.year, date.month + 1, 1)

BillingStart(date) == DateReplace(date.year, date.month, 1)

BillingEnd(date) ==
    IF IsError(NextMonthStart(date)) THEN NextMonthStart(date)
    ELSE DateMinusOneDay(NextMonthStart(date))

\* The object the constructor leaves, given the two fees it has computed.
PurchaseObject(date, card, amount, status, _transaction_fee, _convenience_fee) ==
    [date |-> date,
     card |-> card,
     status |-> status,
     amount |-> amount,
     _transaction_fee |-> _transaction_fee,
     _convenience_fee |-> _convenience_fee,
     final_amount |-> FAdd(FAdd(amount, _transaction_fee), _convenience_fee),
     billing_cycle |-> DateStr(BillingStart(date)) \o ", " \o DateStr(BillingEnd(date))]

\* Purchase without the assertion on the card: an unknown card fails only
\* where the rate table is read, that is for a due purchase.
Purchase_NoCardCheck(date, card, amount, status) ==
    IF ~status /\ card \notin DOMAIN card_rate THEN [error |-> "KeyError", card |-> card]
    ELSE IF IsError(BillingStart(date)) THEN BillingStart(date)
    ELSE IF IsError(BillingEnd(date)) THEN BillingEnd(date)
    ELSE PurchaseObject(date, card, amount, status,
                        TransactionFee(card, amount, status),
                        ConvenienceFee(amount, status))

\* Purchase(date, card, amount, status): the constructed object, or the
\* exception the constructor raises.
Purchase(date, card, amount, status) ==
    IF card \notin DOMAIN card_rate THEN AssertionError(card)
    ELSE IF IsError(BillingStart(date)) THEN BillingStart(date)
    ELSE IF IsError(BillingEnd(date)) THEN BillingEnd(date)
    ELSE PurchaseObject(date, card, amount, status,
                        TransactionFee(card, amount, status),
                        ConvenienceFee(amount, status))

\* The identity of a constructed object: two purchases with equal fields are
\* still two objects.  oid numbers the objects in construction order.
NewObject(p, oid) == [oid |-> oid] @@ p

(***************************************************************************)
(* Python list operations                                                  *)
(***************************************************************************)

\* Whether log[i] is a legal subscript (negative subscripts count from the end).
InRange(log, i) == i \in (0 - Len(log))..(Len(log) - 1)

\* log[i]
At(log, i) == IF i >= 0 THEN log[i + 1] ELSE log[Len(log) + i + 1]

\* The position list.insert(i, x) really uses: i is clamped to 0..len.
ClampIndex(log, i) ==
    IF i < 0 THEN (IF i + Len(log) < 0 THEN 0 ELSE i + Len(log))
    ELSE IF i > Len(log) THEN Len(log) ELSE i

\* ListInsert as an assignment log[i] = x where a record is already stored.
ListInsert_Overwrite(log, i, x) ==
    IF ClampIndex(log, i) < Len(log)
    THEN [log EXCEPT ![ClampIndex(log, i) + 1] = x]
    ELSE Append(log, x)

\* log.insert(i, x)
ListInsert(log, i, x) ==
    SubSeq(log, 1, ClampIndex(log, i)) \o <<x>>
        \o SubSeq(log, ClampIndex(log, i) + 1, Len(log))

(***************************************************************************)
(* class PurchaseLog                                                       *)
(***************************************************************************)

\* PurchaseLogInit with the totals left at a non-zero starting balance.
PurchaseLogInit_OpeningBalance ==
    [log |-> <<>>, min_purchase |-> None, max_purchase |-> None,
     total_due |-> Whole(1000), total_paid |-> Whole(0)]

\* PurchaseLog.__init__
PurchaseLogInit ==
    [log |-> <<>>, min_purchase |-> None, max_purchase |-> None,
     total_due |-> Whole(0), total_paid |-> Whole(0)]

\* SearchLoop moving the interval's end by one place per iteration: a linear
\* scan.
RECURSIVE SearchLoop_Linear(_, _, _, _, _)
SearchLoop_Linear(log, date, _start, _end, steps) ==
    IF _end - _start > 1
    THEN LET _mid == (_start + _end) \div 2
             step == [start |-> _start, end |-> _end, mid |-> _mid]
         IN IF ~InRange(log, _end)
            THEN [error |-> "IndexError", start |-> _start, end |-> _end,
                  steps |-> Append(steps, step)]
            ELSE IF DateGT(At(log, _end).date, date)
                 THEN SearchLoop_Linear(log, date, _start, _end - 1, Append(steps, step))
                 ELSE [start |-> _end, end |-> _end, steps |-> Append(steps, step)]
    ELSE [start |-> _start, end |-> _end, steps |-> steps]

\* The while loop of the binary search.  steps records, per iteration, the
\* interval it started from and the middle index it read.
RECURSIVE SearchLoop(_, _, _, _, _)
SearchLoop(log, date, _start, _end, steps) ==
    IF _end - _start > 1
    THEN LET _mid == (_start + _end) \div 2
             step == [start |-> _start, end |-> _end, mid |-> _mid]
         IN IF ~InRange(log, _mid)
            THEN [error |-> "IndexError", start |-> _start, end |-> _end,
                  steps |-> Append(steps, step)]
            ELSE IF DateGT(At(log, _mid).date, date)
                 THEN SearchLoop(log, date, _start, _mid - 1, Append(steps, step))
                 ELSE SearchLoop(log, date, _mid + 1, _end, Append(steps, step))
    ELSE [start |-> _start, end |-> _end, steps |-> steps]

\* BinarySearch starting with _end one past the last index.
BinarySearch_EndPastLast(log, date) == SearchLoop(log, date, 0, Len(log), <<>>)

\* The binary search from its initial interval.
BinarySearch(log, date) == SearchLoop(log, date, 0, Len(log) - 1, <<>>)

\* ChooseIndex whose last branch inserts at _start instead of _end.
ChooseIndex_ElseAtStart(log, date, _start, _end) ==
    IF ~InRange(log, _start) THEN IndexError
    ELSE IF DateLT(date, At(log, _start).date) THEN [index |-> _start]
    ELSE IF ~InRange(log, _end) THEN IndexError
    ELSE IF DateGE(date, At(log, _end).date) THEN [index |-> _end + 1]
    ELSE [index |-> _start]

\* ChooseIndex whose second test is strict: an equal date goes before _end.
ChooseIndex_StrictGreater(log, date, _start, _end) ==
    IF ~InRange(log, _start) THEN IndexError
    ELSE IF DateLT(date, At(log, _start).date) THEN [index |-> _start]
    ELSE IF ~InRange(log, _end) THEN IndexError
    ELSE IF DateGT(date, At(log, _end).date) THEN [index |-> _end + 1]
    ELSE [index |-> _end]

\* The index the three-way test after the loop hands to list.insert, given the
\* interval the loop ended on; IndexError when a subscript is out of range.
ChooseIndex(log, date, _start, _end) ==
    IF ~InRange(log, _start) THEN IndexError
    ELSE IF DateLT(date, At(log, _start).date) THEN [index |-> _start]
    ELSE IF ~InRange(log, _end) THEN IndexError
    ELSE IF DateGE(date, At(log, _end).date) THEN [index |-> _end + 1]
    ELSE [index |-> _end]

\* The index chosen once the search has ended on s; the result carries the
\* trace of the search.
ChosenAfter(log, date, s) ==
    IF IsError(s) THEN s
    ELSE ChooseIndex(log, date, s.start, s.end) @@ s

\* The non-empty branch of the insertion: search, then choose the index.
InsertionPoint(log, date) == ChosenAfter(log, date, BinarySearch(log, date))

\* UpdateMinMax with the comparisons made non-strict: an equal amount replaces
\* the incumbent.
UpdateMinMax_NonStrict(self, purchase) ==
    IF ~purchase.status
    THEN [self EXCEPT
            !.min_purchase =
                IF self.min_purchase = None THEN purchase
                ELSE IF FLessEq(purchase.final_amount, self.min_purchase.final_amount)
                     THEN purchase ELSE @,
            !.max_purchase =
                IF self.max_purchase = None THEN purchase
                ELSE IF FLessEq(self.max_purchase.final_amount, purchase.final_amount)
                     THEN purchase ELSE @]
    ELSE self

\* UpdateMinMax without the test of the status: a payment competes too.
UpdateMinMax_IgnoreStatus(self, purchase) ==
    [self EXCEPT
        !.min_purchase =
            IF self.min_purchase = None THEN purchase
            ELSE IF FLess(purchase.final_amount, self.min_purchase.final_amount)
                 THEN purchase ELSE @,
        !.max_purchase =
            IF self.max_purchase = None THEN purchase
            ELSE IF FLess(self.max_purchase.final_amount, purchase.final_amount)
                 THEN purchase ELSE @]

\* FirstMinMax without the test of the status.
FirstMinMax_IgnoreStatus(self, purchase) ==
    [self EXCEPT !.min_purchase = purchase, !.max_purchase = purchase]

\* Minimum and maximum purchase on the first insertion into an empty log.
FirstMinMax(self, purchase) ==
    IF ~purchase.status
    THEN [self EXCEPT !.min_purchase = purchase, !.max_purchase = purchase]
    ELSE self

\* "Update min and max purchase" of a later insertion.
UpdateMinMax(self, purchase) ==
    IF ~purchase.status
    THEN [self EXCEPT
            !.min_purchase =
                IF self.min_purchase = None THEN purchase
                ELSE IF FLess(purchase.final_amount, self.min_purchase.final_amount)
                     THEN purchase ELSE @,
            !.max_purchase =
                IF self.max_purchase = None THEN purchase
                ELSE IF FLess(self.max_purchase.final_amount, purchase.final_amount)
                     THEN purchase ELSE @]
    ELSE self

\* "Update totals"
UpdateTotals(self, purchase) ==
    IF ~purchase.status
    THEN [self EXCEPT !.total_due = FAdd(@, purchase.final_amount)]
    ELSE [self EXCEPT !.total_paid = FAdd(@, purchase.final_amount)]

\* The insertion at the chosen index and the min/max update that follows it.
InsertAt(self, purchase, at) ==
    IF IsError(at) THEN at
    ELSE [self |-> UpdateMinMax([self EXCEPT !.log = ListInsert(@, at.index, purchase)],
                                purchase),
          search |-> at @@ [searched |-> TRUE]]

\* "Insert purchase in log": the insertion and the min/max update of either
\* branch, before the totals are updated.  The result is [self, search], or an
\* exception record (the log is then untouched).
InsertPurchase(self, purchase) ==
    IF Len(self.log) = 0
    THEN [self |-> FirstMinMax([self EXCEPT !.log = ListInsert(@, 0, purchase)],
                               purchase),
          search |-> [index |-> 0, start |-> 0, end |-> 0, steps |-> <<>>,
                      searched |-> FALSE]]
    ELSE InsertAt(self, purchase, InsertionPoint(self.log, purchase.date))

\* The update of the totals that ends add_purchase, given the outcome r of
\* the insertion.
TotalsAfter(r, purchase) ==
    IF IsError(r) THEN r
    ELSE [r EXCEPT !.self = UpdateTotals(r.self, purchase)]

\* PurchaseLog.add_purchase
add_purchase(self, purchase) == TotalsAfter(InsertPurchase(self, purchase), purchase)

\* PurchaseLog.query_totals
query_totals(self) == <<self.total_due, self.total_paid>>

\* query_purchases ignoring its argument: always the default, status False.
query_purchases_IgnoreArg(self, status) ==
    SelectSeq(self.log, LAMBDA p : p.status = FALSE)

\* PurchaseLog.query_purchases
query_purchases(self, status) ==
    SelectSeq(self.log, LAMBDA p : p.status = status)


\* datetime.date.fromisoformat, of the numbers typed as YYYY-MM-DD: the date,
\* or ValueError when they name no day of the calendar.
FromIsoFormat(typed) == DateReplace(typed.year, typed.month, typed.day)

(***************************************************************************)
(* class UserAccount, class Platform                                       *)
(***************************************************************************)

\* UserAccount.__init__
UserAccount(name, fullname, phone_num, password, country, address) ==
    [name |-> name, fullname |-> fullname, phone_num |-> phone_num,
     password |-> password, country |-> country, address |-> address,
     purchase_log |-> PurchaseLogInit]

\* The failed assertion of upload_purchase: its message lists the supported
\* cards and does not name the card typed.
UploadAssertionError ==
    [error |-> "AssertionError", message |-> "Acceptable card types are",
     supported |-> card_rate_keys]


(***************************************************************************)
(* Bounds and input sets                                                   *)
(***************************************************************************)

\* Longest log of the general specification.
MaxLog == 4

\* Longest log of the specification of the search (dates only).
MaxDeep == 8

\* Number of distinct dates fed to the search specification.
NumDates == 3

DateList ==
    << [year |-> 2023, month |-> 12, day |-> 15],
       [year |-> 2023, month |-> 2, day |-> 10],
       [year |-> 2024, month |-> 2, day |-> 10],
       [year |-> 2023, month |-> 12, day |-> 31],
       [year |-> 2024, month |-> 1, day |-> 1] >>

\* Dates of the general specification.
LogDates == {DateList[1], DateList[2]}

\* Dates of the search specification.
DeepDates == {DateList[i] : i \in 1..NumDates}

\* Number of add_purchase calls the concurrent callers make between them.
MaxCalls == 2

\* Length of the log the concurrent callers may find when they start.
MaxPrefill == 3

\* Amounts of the log specifications: a whole number whose fees and sums are
\* whole numbers too, and 0.2, which is no double, so that the sums that hold
\* it are rounded.
Amounts == {Whole(1000), Literal(<<"0", ".", "2">>)}

\* Amounts of the constructor specification: with a fraction too.
PurchaseAmounts == Amounts \cup {Literal(<<"1", "2", ".", "5">>)}

\* Card of the purchases of the log specifications.
LogCards == {"visa"}

\* Inputs of the constructor specification.
Years == {1, 1900, 2000, 2023, 2024, 9999}

AllDates ==
    {[year |-> y, month |-> m, day |-> d] :
        y \in Years, m \in 1..12, d \in 1..31} \ 
    {x \in [year : Years, month : 1..12, day : 1..31] :
        x.day > DaysInMonth(x.year, x.month)}

CardInputs == DOMAIN card_rate \cup {"mastercard"}

\* Longest log of an account of the platform specification.
MaxUserLog == 2

\* Inputs of the platform specification.
Usernames == {"ann", "bob"}

Passwords == {"pw", "guess"}

TypedDates ==
    {[year |-> 2023, month |-> 12, day |-> 15],
     [year |-> 2023, month |-> 2, day |-> 10]}

\* Answers to the menus of launch: the digits 1 to 6, a 7 after a blank, a
\* letter, nothing, and an answer that int() reads as 2, the fullwidth digit
\* two (U+FF12) after an em space (U+2003).
MenuAnswers ==
    {Typed(<<"1">>), Typed(<<"2">>), Typed(<<"3">>), Typed(<<"4">>), Typed(<<"5">>),
     Typed(<<"6">>), Typed(<<" ", "7">>), Typed(<<"x">>), <<>>, <<8195, 65298>>}

\* Dates typed to print_purchase_history; the second is no day of the calendar.
HistoryDates ==
    {[year |-> 2023, month |-> 1, day |-> 1], [year |-> 2023, month |-> 2, day |-> 30]}

\* Cards typed: Visa, mastercard, and VISA written with the capital I with
\* dot above (U+0130), which lower() turns into no key of card_rate.
TypedCards ==
    {Typed(<<"V", "i", "s", "a">>),
     Typed(<<"m", "a", "s", "t", "e", "r", "c", "a", "r", "d">>),
     <<86, 304, 83, 65>>}

TypedAmounts == {Typed(<<"1", "0", "0", "0">>), <<>>}

\* Longest log of the specification of the uploads of one account.
MaxUploads == 3

\* Amounts typed in the specification of the uploads of one account.
UploadAmounts == {Typed(<<"1", "0", "0", "0">>), Typed(<<"0", ".", "2">>)}

TypedStatuses == {Typed(<<"1">>), Typed(<<"0">>), <<>>, Typed(<<"n", "o">>)}

\* Amounts typed in the specification of the direct calls: nothing, and 1000
\* written with the Arabic-Indic digit one (U+0661) and followed by an em
\* space (U+2003).
CallAmounts == {<<1633, 48, 48, 48, 8195>>, <<>>}

\* Statuses typed in the specification of the direct calls: 0, nothing, and 1
\* written with the fullwidth digit one (U+FF11).
CallStatuses == {<<65297>>, Typed(<<"0">>), <<>>}

(***************************************************************************)
(* State                                                                   *)
(***************************************************************************)

VARIABLES
    log,            \* PurchaseLog.log
    min_purchase,   \* PurchaseLog.min_purchase
    max_purchase,   \* PurchaseLog.max_purchase
    total_due,      \* PurchaseLog.total_due
    total_paid,     \* PurchaseLog.total_paid
    op,             \* the last call made: its name and arguments
    ret,            \* what the last call returned or raised
    search,         \* trace of the search of the last add_purchase
    userdata,       \* Platform.userdata: username -> UserAccount
    current_user,   \* Platform.current_user: None or [str |-> username]
    file,           \* content of the user data file: the userdata last dumped
    threads,        \* per caller, the add_purchase call it is in and where
    overlap,        \* whether two calls on the log ever ran at the same time
    calls           \* number of add_purchase calls the concurrent callers began

vars ==
    <<log, min_purchase, max_purchase, total_due, total_paid, op, ret, search,
      userdata, current_user, file, threads, overlap, calls>>

platvars == <<userdata, current_user, file>>

\* Callers of the log that may run at the same time.
Threads == {"t1", "t2"}

Idle == [pc |-> "idle"]

thrvars == <<threads, overlap, calls>>

logvars == <<log, min_purchase, max_purchase, total_due, total_paid>>

\* The PurchaseLog object held by the state.
Self ==
    [log |-> log, min_purchase |-> min_purchase, max_purchase |-> max_purchase,
     total_due |-> total_due, total_paid |-> total_paid]

Init ==
    /\ log = PurchaseLogInit.log
    /\ min_purchase = PurchaseLogInit.min_purchase
    /\ max_purchase = PurchaseLogInit.max_purchase
    /\ total_due = PurchaseLogInit.total_due
    /\ total_paid = PurchaseLogInit.total_paid
    /\ op = [name |-> "PurchaseLog"]
    /\ ret = None
    /\ search = None
    /\ userdata = <<>>
    /\ current_user = None
    /\ file = <<>>
    /\ threads = [t \in Threads |-> Idle]
    /\ overlap = FALSE
    /\ calls = 0

(***************************************************************************)
(* Operations                                                              *)
(***************************************************************************)

\* The state once add_purchase(purchase) has ended with r.
Added(purchase, r) ==
    /\ op' = [name |-> "add_purchase", purchase |-> purchase]
    /\ IF IsError(r)
       THEN /\ ret' = r
            /\ search' = None
            /\ UNCHANGED logvars
       ELSE /\ ret' = None
            /\ search' = r.search
            /\ log' = r.self.log
            /\ min_purchase' = r.self.min_purchase
            /\ max_purchase' = r.self.max_purchase
            /\ total_due' = r.self.total_due
            /\ total_paid' = r.self.total_paid

\* The constructed object p is added to the log.
AddObject(p) ==
    /\ ~IsError(p)
    /\ Added(NewObject(p, Len(log) + 1), add_purchase(Self, NewObject(p, Len(log) + 1)))
    /\ UNCHANGED <<platvars, thrvars>>

\* A caller constructs a Purchase and adds it to the log.
AddPurchase(date, card, amount, status) == AddObject(Purchase(date, card, amount, status))

\* A caller constructs a Purchase from the arguments it holds and keeps the
\* result (object or exception).
NewPurchase ==
    /\ op.name = "input"
    /\ op' = [op EXCEPT !.name = "Purchase"]
    /\ ret' = Purchase(op.date, op.card, op.amount, op.status)
    /\ UNCHANGED <<logvars, search, thrvars, platvars>>

QueryTotals ==
    /\ op' = [name |-> "query_totals"]
    /\ ret' = [tuple |-> query_totals(Self)]
    /\ UNCHANGED <<logvars, search, thrvars, platvars>>

\* QueryPurchases filtering the log in place.
QueryPurchases_InPlace(status) ==
    /\ op' = [name |-> "query_purchases", status |-> status]
    /\ ret' = [list |-> query_purchases(Self, status)]
    /\ log' = query_purchases(Self, status)
    /\ UNCHANGED <<min_purchase, max_purchase, total_due, total_paid, search, platvars, thrvars>>

QueryPurchases(status) ==
    /\ op' = [name |-> "query_purchases", status |-> status]
    /\ ret' = [list |-> query_purchases(Self, status)]
    /\ UNCHANGED <<logvars, search, thrvars, platvars>>

\* The general specification: insertions of any status and amount, and queries.
Next ==
    \/ \E date \in LogDates, card \in LogCards, amount \in Amounts, status \in BOOLEAN :
          Len(log) < MaxLog /\ AddPurchase(date, card, amount, status)
    \/ QueryTotals
    \/ \E status \in BOOLEAN : QueryPurchases(status)

Spec == Init /\ [][Next]_vars

\* The search specification: long logs, insertions that differ by date only.
NextDeep ==
    \E date \in DeepDates :
        Len(log) < MaxDeep /\ AddPurchase(date, "visa", Whole(1000), FALSE)

SpecDeep == Init /\ [][NextDeep]_vars

\* The constructor specification: Purchase applied to every input.
InitPurchase ==
    /\ log = PurchaseLogInit.log
    /\ min_purchase = PurchaseLogInit.min_purchase
    /\ max_purchase = PurchaseLogInit.max_purchase
    /\ total_due = PurchaseLogInit.total_due
    /\ total_paid = PurchaseLogInit.total_paid
    /\ op \in [name : {"input"}, date : AllDates, card : CardInputs,
                amount : PurchaseAmounts, status : BOOLEAN]
    /\ ret = None
    /\ search = None
    /\ userdata = <<>>
    /\ current_user = None
    /\ file = <<>>
    /\ threads = [t \in Threads |-> Idle]
    /\ overlap = FALSE
    /\ calls = 0

NextPurchase == NewPurchase

SpecPurchase == InitPurchase /\ [][NextPurchase]_vars

(***************************************************************************)
(* Platform operations                                                     *)
(***************************************************************************)

\* The specification of the platform starts from Platform.__init__ with no
\* user data file: an empty database is created and written.
InitPlatform ==
    /\ log = PurchaseLogInit.log
    /\ min_purchase = PurchaseLogInit.min_purchase
    /\ max_purchase = PurchaseLogInit.max_purchase
    /\ total_due = PurchaseLogInit.total_due
    /\ total_paid = PurchaseLogInit.total_paid
    /\ op = [name |-> "Platform", wrote |-> TRUE]
    /\ ret = None
    /\ search = None
    /\ userdata = <<>>
    /\ current_user = None
    /\ file = <<>>
    /\ threads = [t \in Threads |-> Idle]
    /\ overlap = FALSE
    /\ calls = 0

\* Platform.__init__ when the user data file exists: the database is loaded.
Restart ==
    /\ op' = [name |-> "Platform", wrote |-> FALSE]
    /\ ret' = None
    /\ userdata' = file
    /\ current_user' = None
    /\ UNCHANGED <<logvars, search, thrvars, file>>

\* Platform.create_account.  The prompts repeat until the name is new and the
\* two passwords typed are equal; uname and passwd are the answers accepted.
CreateAccount(uname, passwd) ==
    /\ uname \notin DOMAIN userdata
    /\ op' = [name |-> "create_account", uname |-> uname, wrote |-> TRUE]
    /\ ret' = None
    /\ userdata' = (uname :> UserAccount(uname, "Full Name", "555-0100", passwd,
                                         "Country", "Address")) @@ userdata
    /\ file' = userdata'
    /\ UNCHANGED <<logvars, search, thrvars, current_user>>

\* Platform.login
Login(uname, passwd) ==
    /\ op' = [name |-> "login", uname |-> uname, wrote |-> FALSE]
    /\ ret' = None
    /\ current_user' =
          IF uname \notin DOMAIN userdata THEN current_user
          ELSE IF passwd = userdata[uname].password THEN [str |-> uname]
          ELSE current_user
    /\ UNCHANGED <<logvars, search, thrvars, userdata, file>>

\* Platform.logout
Logout ==
    /\ op' = [name |-> "logout", wrote |-> TRUE]
    /\ ret' = None
    /\ file' = userdata
    /\ current_user' = None
    /\ UNCHANGED <<logvars, search, thrvars, userdata>>

\* What upload_purchase has read once all four answers are in.
UploadRead(datestring, card, amountstr, statusstr) ==
    [name |-> "upload_purchase", datestring |-> datestring, card |-> card,
     amountstr |-> amountstr, statusstr |-> statusstr]

\* The outcome of upload_purchase once add_purchase(p) has ended with r.
UploadAdded(purchase_log, read, p, r) ==
    IF IsError(r) THEN [ret |-> r, read |-> read]
    ELSE [ret |-> None, read |-> read,
          inserted |-> InsertPurchase(purchase_log, p).self,
          self |-> r.self]

\* The outcome of upload_purchase once the constructor has returned p.
UploadConstructed(purchase_log, read, p) ==
    IF IsError(p) THEN [ret |-> p, read |-> read]
    ELSE UploadAdded(purchase_log, read, NewObject(p, Len(purchase_log.log) + 1),
                     add_purchase(purchase_log, NewObject(p, Len(purchase_log.log) + 1)))

\* The outcome of upload_purchase, given what the four answers convert to.
UploadConverted(purchase_log, datestring, card, amountstr, statusstr, date, amount, statusint) ==
    IF IsError(date)
    THEN [ret |-> date, read |-> [name |-> "upload_purchase", datestring |-> datestring]]
    ELSE IF \A key \in DOMAIN card_rate : KeyText[key] # card
         THEN [ret |-> UploadAssertionError,
               read |-> [name |-> "upload_purchase", datestring |-> datestring,
                         card |-> card]]
    ELSE IF IsError(amount)
         THEN [ret |-> amount,
               read |-> [name |-> "upload_purchase", datestring |-> datestring,
                         card |-> card, amountstr |-> amountstr]]
    ELSE IF IsError(statusint)
         THEN [ret |-> statusint,
               read |-> UploadRead(datestring, card, amountstr, statusstr)]
    ELSE UploadConstructed(purchase_log,
                           UploadRead(datestring, card, amountstr, statusstr),
                           Purchase(date,
                                    CHOOSE key \in DOMAIN card_rate : KeyText[key] = card,
                                    amount,
                                    IsWhole(statusint) /\ statusint.value = 1))

\* The body of upload_purchase for a logged-in user, up to the call of
\* add_purchase: what the call raises (or None), the answers it read before,
\* and the user's log after the insertion alone (inserted) and after the whole
\* add_purchase (self).  A prompt is not reached once an earlier answer failed.
UploadOutcome(purchase_log, datestring, cardstr, amountstr, statusstr) ==
    UploadConverted(purchase_log, datestring, StrLower(cardstr), amountstr, statusstr,
                    FromIsoFormat(datestring), FloatOf(amountstr), IntOf(statusstr))

\* The purchase log of the logged-in user.
CurrentLog == userdata[current_user.str].purchase_log

\* UploadPurchase on accounts that share one log object: the record goes to
\* every account, and no login is asked for.
UploadPurchase_SharedLog(datestring, cardstr, amountstr, statusstr) ==
    LET out == [u \in DOMAIN userdata |->
                  UploadOutcome(userdata[u].purchase_log, datestring, cardstr,
                                amountstr, statusstr)]
        any == CHOOSE u \in DOMAIN userdata : TRUE
    IN IF DOMAIN userdata = {}
       THEN /\ op' = [name |-> "upload_purchase", wrote |-> FALSE]
            /\ ret' = None
            /\ UNCHANGED <<logvars, search, thrvars, platvars>>
       ELSE IF IsError(out[any].ret)
            THEN /\ op' = out[any].read @@ [wrote |-> FALSE]
                 /\ ret' = out[any].ret
                 /\ UNCHANGED <<logvars, search, thrvars, platvars>>
            ELSE /\ op' = out[any].read @@ [wrote |-> TRUE]
                 /\ ret' = None
                 /\ userdata' = [u \in DOMAIN userdata |->
                                   [userdata[u] EXCEPT !.purchase_log = out[u].self]]
                 /\ file' = userdata'
                 /\ UNCHANGED <<logvars, search, thrvars, current_user>>

\* UploadPurchase opening and writing the file before the answers are read.
UploadPurchase_WriteFirst(datestring, cardstr, amountstr, statusstr) ==
    IF current_user = None
    THEN /\ op' = [name |-> "upload_purchase", wrote |-> FALSE]
         /\ ret' = None
         /\ UNCHANGED <<logvars, search, thrvars, platvars>>
    ELSE LET out == UploadOutcome(CurrentLog, datestring, cardstr, amountstr, statusstr)
         IN IF IsError(out.ret)
            THEN /\ op' = out.read @@ [wrote |-> TRUE]
                 /\ ret' = out.ret
                 /\ file' = userdata
                 /\ UNCHANGED <<logvars, search, thrvars, userdata, current_user>>
            ELSE /\ op' = out.read @@ [wrote |-> TRUE]
                 /\ ret' = None
                 /\ userdata' = [userdata EXCEPT ![current_user.str].purchase_log = out.self]
                 /\ file' = userdata'
                 /\ UNCHANGED <<logvars, search, thrvars, current_user>>

\* The state once the body of upload_purchase has ended with out.
Uploaded(out) ==
    IF IsError(out.ret)
    THEN /\ op' = out.read @@ [wrote |-> FALSE]
         /\ ret' = out.ret
         /\ UNCHANGED <<logvars, search, thrvars, platvars>>
    ELSE /\ op' = out.read @@ [wrote |-> TRUE]
         /\ ret' = None
         /\ userdata' = [userdata EXCEPT ![current_user.str].purchase_log = out.self]
         /\ file' = userdata'
         /\ UNCHANGED <<logvars, search, thrvars, current_user>>

\* Platform.upload_purchase
UploadPurchase(datestring, cardstr, amountstr, statusstr) ==
    IF current_user = None
    THEN /\ op' = [name |-> "upload_purchase", wrote |-> FALSE]
         /\ ret' = None
         /\ UNCHANGED <<logvars, search, thrvars, platvars>>
    ELSE Uploaded(UploadOutcome(CurrentLog, datestring, cardstr, amountstr, statusstr))

\* The methods that only print (display_info, query_minmax, print_totals,
\* print_payment_history): they read the current user's account, change
\* nothing and return None.
Display(method) ==
    /\ op' = [name |-> method, wrote |-> FALSE]
    /\ ret' = None
    /\ UNCHANGED <<logvars, search, thrvars, platvars>>

\* Platform.print_purchase_history: the two dates typed are parsed before the
\* table is built; a date that fromisoformat refuses raises ValueError.
PrintPurchaseHistory(d1, d2) ==
    /\ op' = [name |-> "print_purchase_history", wrote |-> FALSE]
    /\ ret' = IF current_user = None THEN None
              ELSE IF IsError(FromIsoFormat(d1)) THEN FromIsoFormat(d1)
              ELSE IF IsError(FromIsoFormat(d2)) THEN FromIsoFormat(d2)
              ELSE None
    /\ UNCHANGED <<logvars, search, thrvars, platvars>>

\* The break of the login screen: launch returns and the program ends.
Exit ==
    /\ op' = [name |-> "exit", wrote |-> FALSE]
    /\ ret' = None
    /\ UNCHANGED <<logvars, search, thrvars, platvars>>

\* launch is still in its loop: it has not left by the break, nor by an
\* exception of a method it called (launch catches none of them).
Running == op.name # "exit" /\ ~IsError(ret)

\* The menu answer names option n: int() accepts it and the value is n.  An
\* answer int() refuses stays a string, equal to no option.
Chose(answer, n) ==
    "value" \in DOMAIN IntOf(answer) /\ IntOf(answer).value = n

\* One turn of the login screen of launch.
LoginScreen(O1) ==
    /\ Running
    /\ current_user = None
    /\ IF Chose(O1, 1) THEN \E uname \in Usernames : CreateAccount(uname, "pw")
       ELSE IF Chose(O1, 2)
            THEN \E uname \in Usernames, passwd \in Passwords : Login(uname, passwd)
       ELSE IF Chose(O1, 3) THEN Exit
       ELSE UNCHANGED vars

\* One turn of the logged-in screen of launch.
LoggedInScreen(O2) ==
    /\ Running
    /\ current_user # None
    /\ IF Chose(O2, 1) THEN Display("display_info")
       ELSE IF Chose(O2, 2)
            THEN \E datestring \in TypedDates, cardstr \in TypedCards,
                    amountstr \in TypedAmounts, statusstr \in TypedStatuses :
                    /\ Len(CurrentLog.log) < MaxUserLog
                    /\ UploadPurchase(datestring, cardstr, amountstr, statusstr)
       ELSE IF Chose(O2, 3) THEN Display("query_minmax")
       ELSE IF Chose(O2, 4) THEN Display("print_totals")
       ELSE IF Chose(O2, 5) THEN Display("print_payment_history")
       ELSE IF Chose(O2, 6)
            THEN \E d1 \in HistoryDates, d2 \in HistoryDates : PrintPurchaseHistory(d1, d2)
       ELSE IF Chose(O2, 7) THEN Logout
       ELSE UNCHANGED vars

\* The program: launch, one menu answer at a time, and the start of the
\* program again once launch has ended.
NextPlatform ==
    \/ \E O1 \in MenuAnswers : LoginScreen(O1)
    \/ \E O2 \in MenuAnswers : LoggedInScreen(O2)
    \/ ~Running /\ Restart

SpecPlatform == InitPlatform /\ [][NextPlatform]_vars

\* The methods of Platform called one by one by a caller that holds the
\* object, in any order, logged in or not; an exception goes to the caller,
\* who may call again.
NextCalls ==
    \/ \E uname \in Usernames : CreateAccount(uname, "pw")
    \/ \E uname \in Usernames, passwd \in Passwords : Login(uname, passwd)
    \/ Logout
    \/ Restart
    \/ \E datestring \in TypedDates, cardstr \in TypedCards,
          amountstr \in CallAmounts, statusstr \in CallStatuses :
          /\ current_user # None => Len(CurrentLog.log) < MaxUserLog
          /\ UploadPurchase(datestring, cardstr, amountstr, statusstr)

SpecCalls == InitPlatform /\ [][NextCalls]_vars

\* One account, created, logged in and uploading purchases of two amounts,
\* by the methods of Platform called one by one.
NextUploads ==
    \/ CreateAccount("ann", "pw")
    \/ Login("ann", "pw")
    \/ \E datestring \in TypedDates, amountstr \in UploadAmounts, statusstr \in TypedStatuses :
          /\ current_user # None => Len(CurrentLog.log) < MaxUploads
          /\ UploadPurchase(datestring, Typed(<<"v", "i", "s", "a">>), amountstr, statusstr)

SpecUploads == InitPlatform /\ [][NextUploads]_vars

(***************************************************************************)
(* Callers sharing one log without a lock                                  *)
(*                                                                         *)
(* add_purchase and query_totals take no lock, so a second caller can run  *)
(* between any two accesses of the log object.  Each action below is the   *)
(* part of a call that holds one access of the object (one read of the     *)
(* list or of an attribute, or one write), with the local computation      *)
(* around it; the actions of different callers interleave freely.  What a  *)
(* caller holds between its steps (_start, _end, the index chosen, a total *)
(* read) is kept in its entry of threads.                                  *)
(***************************************************************************)

\* Sum of final_amount over the records of the given status: a full scan
\* from the first record to the last, as sum() adds them.
RECURSIVE SumFinal(_, _)
SumFinal(records, status) ==
    IF records = <<>> THEN Whole(0)
    ELSE IF records[Len(records)].status = status
         THEN FAdd(SumFinal(SubSeq(records, 1, Len(records) - 1), status),
                   records[Len(records)].final_amount)
    ELSE SumFinal(SubSeq(records, 1, Len(records) - 1), status)

InFlight(t) == threads[t].pc # "idle"

\* The log a serial caller built before the concurrent callers start: the
\* purchases 1..k added one after the other.
PrefillPurchase(k) ==
    NewObject(Purchase(DateList[(k % 2) + 1], "visa",
                       IF k % 3 = 0 THEN Whole(1000) ELSE Literal(<<"0", ".", "2">>),
                       k % 3 # 0), k)

RECURSIVE Prefill(_)
Prefill(k) ==
    IF k = 0 THEN PurchaseLogInit
    ELSE add_purchase(Prefill(k - 1), PrefillPurchase(k)).self

\* The state holds the PurchaseLog object self.
LogIs(self) ==
    /\ log = self.log
    /\ min_purchase = self.min_purchase
    /\ max_purchase = self.max_purchase
    /\ total_due = self.total_due
    /\ total_paid = self.total_paid

InitThreads ==
    /\ \E k \in {0, MaxPrefill} : LogIs(Prefill(k))
    /\ op = [name |-> "PurchaseLog"]
    /\ ret = None
    /\ search = None
    /\ userdata = <<>>
    /\ current_user = None
    /\ file = <<>>
    /\ threads = [t \in Threads |-> Idle]
    /\ overlap = FALSE
    /\ calls = 0

\* The caller's pc moves on; what it holds is kept.
Goto(t, pc) == [threads EXCEPT ![t].pc = pc]

\* The call of caller t ends with an exception.
ThreadRaise(t, error) ==
    /\ threads' = [threads EXCEPT ![t] = Idle]
    /\ op' = [name |-> "add_purchase", purchase |-> threads[t].purchase]
    /\ ret' = error

\* Caller t holds the constructed object p.
ThreadHolds(t, p) ==
    /\ ~IsError(p)
    /\ threads' = [threads EXCEPT ![t] =
          [pc |-> "test_empty", purchase |-> NewObject(p, MaxPrefill + calls + 1)]]

\* Caller t enters add_purchase with a new Purchase.
ThreadCall(t, date, card, amount, status) ==
    /\ ~InFlight(t)
    /\ calls < MaxCalls
    /\ ThreadHolds(t, Purchase(date, card, amount, status))
    /\ overlap' = (overlap \/ \E u \in Threads \ {t} : InFlight(u))
    /\ calls' = calls + 1
    /\ UNCHANGED <<logvars, op, ret, search, platvars>>

\* if len(self.log) == 0
ThreadTestEmpty(t) ==
    /\ threads[t].pc = "test_empty"
    /\ threads' = [threads EXCEPT ![t] =
          IF Len(log) = 0
          THEN [pc |-> "insert", purchase |-> @.purchase, first |-> TRUE, index |-> 0]
          ELSE [pc |-> "bounds", purchase |-> @.purchase, first |-> FALSE]]
    /\ UNCHANGED <<logvars, op, ret, search, overlap, calls, platvars>>

\* _start = 0; _end = len(self.log) - 1
ThreadBounds(t) ==
    /\ threads[t].pc = "bounds"
    /\ threads' = [threads EXCEPT ![t] =
          [pc |-> "loop", purchase |-> @.purchase, first |-> FALSE,
           _start |-> 0, _end |-> Len(log) - 1]]
    /\ UNCHANGED <<logvars, op, ret, search, overlap, calls, platvars>>

\* One iteration of the while loop: it reads self.log[_mid].
ThreadLoop(t) ==
    /\ threads[t].pc = "loop"
    /\ threads[t]._end - threads[t]._start > 1
    /\ LET _mid == (threads[t]._start + threads[t]._end) \div 2
       IN IF ~InRange(log, _mid)
          THEN ThreadRaise(t, IndexError)
          ELSE /\ threads' = [threads EXCEPT ![t] =
                     IF DateGT(At(log, _mid).date, threads[t].purchase.date)
                     THEN [@ EXCEPT !._end = _mid - 1]
                     ELSE [@ EXCEPT !._start = _mid + 1]]
               /\ UNCHANGED <<op, ret>>
    /\ UNCHANGED <<logvars, search, overlap, calls, platvars>>

\* The loop has ended; if purchase.date < self.log[_start].date
ThreadCompareStart(t) ==
    /\ threads[t].pc = "loop"
    /\ ~(threads[t]._end - threads[t]._start > 1)
    /\ IF ~InRange(log, threads[t]._start)
       THEN ThreadRaise(t, IndexError)
       ELSE /\ threads' = [threads EXCEPT ![t] =
                  IF DateLT(threads[t].purchase.date, At(log, threads[t]._start).date)
                  THEN [pc |-> "insert", index |-> @._start] @@ @
                  ELSE [@ EXCEPT !.pc = "compare_end"]]
            /\ UNCHANGED <<op, ret>>
    /\ UNCHANGED <<logvars, search, overlap, calls, platvars>>

\* elif purchase.date >= self.log[_end].date
ThreadCompareEnd(t) ==
    /\ threads[t].pc = "compare_end"
    /\ IF ~InRange(log, threads[t]._end)
       THEN ThreadRaise(t, IndexError)
       ELSE /\ threads' = [threads EXCEPT ![t] =
                  IF DateGE(threads[t].purchase.date, At(log, threads[t]._end).date)
                  THEN [pc |-> "insert", index |-> @._end + 1] @@ @
                  ELSE [pc |-> "insert", index |-> @._end] @@ @]
            /\ UNCHANGED <<op, ret>>
    /\ UNCHANGED <<logvars, search, overlap, calls, platvars>>

\* self.log.insert(index, purchase), at the index chosen earlier; then the
\* test of the status, which decides the statement that follows.
ThreadInsert(t) ==
    /\ threads[t].pc = "insert"
    /\ log' = ListInsert(log, threads[t].index, threads[t].purchase)
    /\ threads' = Goto(t, IF threads[t].purchase.status THEN "load"
                          ELSE IF threads[t].first THEN "first_min"
                          ELSE "min_none")
    /\ UNCHANGED <<min_purchase, max_purchase, total_due, total_paid,
                   op, ret, search, overlap, calls, platvars>>

\* The first insertion: self.min_purchase = purchase
ThreadFirstMin(t) ==
    /\ threads[t].pc = "first_min"
    /\ min_purchase' = threads[t].purchase
    /\ threads' = Goto(t, "first_max")
    /\ UNCHANGED <<log, max_purchase, total_due, total_paid,
                   op, ret, search, overlap, calls, platvars>>

\* The first insertion: self.max_purchase = purchase
ThreadFirstMax(t) ==
    /\ threads[t].pc = "first_max"
    /\ max_purchase' = threads[t].purchase
    /\ threads' = Goto(t, "load")
    /\ UNCHANGED <<log, min_purchase, total_due, total_paid,
                   op, ret, search, overlap, calls, platvars>>

\* if self.min_purchase is None
ThreadMinIsNone(t) ==
    /\ threads[t].pc = "min_none"
    /\ threads' = Goto(t, IF min_purchase = None THEN "min_set" ELSE "min_compare")
    /\ UNCHANGED <<logvars, op, ret, search, overlap, calls, platvars>>

\* elif self.min_purchase.final_amount > purchase.final_amount
ThreadMinCompare(t) ==
    /\ threads[t].pc = "min_compare"
    /\ threads' = Goto(t, IF FLess(threads[t].purchase.final_amount,
                                   min_purchase.final_amount)
                          THEN "min_set" ELSE "max_none")
    /\ UNCHANGED <<logvars, op, ret, search, overlap, calls, platvars>>

\* self.min_purchase = purchase
ThreadMinSet(t) ==
    /\ threads[t].pc = "min_set"
    /\ min_purchase' = threads[t].purchase
    /\ threads' = Goto(t, "max_none")
    /\ UNCHANGED <<log, max_purchase, total_due, total_paid,
                   op, ret, search, overlap, calls, platvars>>

\* if self.max_purchase is None
ThreadMaxIsNone(t) ==
    /\ threads[t].pc = "max_none"
    /\ threads' = Goto(t, IF max_purchase = None THEN "max_set" ELSE "max_compare")
    /\ UNCHANGED <<logvars, op, ret, search, overlap, calls, platvars>>

\* elif self.max_purchase.final_amount < purchase.final_amount
ThreadMaxCompare(t) ==
    /\ threads[t].pc = "max_compare"
    /\ threads' = Goto(t, IF FLess(max_purchase.final_amount,
                                   threads[t].purchase.final_amount)
                          THEN "max_set" ELSE "load")
    /\ UNCHANGED <<logvars, op, ret, search, overlap, calls, platvars>>

\* self.max_purchase = purchase
ThreadMaxSet(t) ==
    /\ threads[t].pc = "max_set"
    /\ max_purchase' = threads[t].purchase
    /\ threads' = Goto(t, "load")
    /\ UNCHANGED <<log, min_purchase, total_due, total_paid,
                   op, ret, search, overlap, calls, platvars>>

\* The read of self.total_due += ... (of self.total_paid for a payment).
ThreadTotalsLoad(t) ==
    /\ threads[t].pc = "load"
    /\ threads' = [threads EXCEPT ![t] =
          [pc |-> "store",
           loaded |-> IF threads[t].purchase.status THEN total_paid ELSE total_due]
             @@ @]
    /\ UNCHANGED <<logvars, op, ret, search, overlap, calls, platvars>>

\* The write of self.total_due += ...: the total read earlier plus the final
\* amount; add_purchase returns.
ThreadTotalsStore(t) ==
    /\ threads[t].pc = "store"
    /\ LET read == IF threads[t].purchase.status
                   THEN [Self EXCEPT !.total_paid = threads[t].loaded]
                   ELSE [Self EXCEPT !.total_due = threads[t].loaded]
           self == UpdateTotals(read, threads[t].purchase)
       IN /\ total_due' = self.total_due
          /\ total_paid' = self.total_paid
    /\ threads' = [threads EXCEPT ![t] = Idle]
    /\ UNCHANGED <<log, min_purchase, max_purchase, op, ret, search, overlap,
                   calls, platvars>>

\* query_totals, the read of self.total_due.
ThreadQueryDue(t) ==
    /\ ~InFlight(t)
    /\ threads' = [threads EXCEPT ![t] = [pc |-> "query_paid", due |-> total_due]]
    /\ overlap' = (overlap \/ \E u \in Threads \ {t} : InFlight(u))
    /\ UNCHANGED <<logvars, op, ret, search, calls, platvars>>

\* query_totals, the read of self.total_paid and the return of the pair.  The
\* caller then scans the records it can see.
ThreadQueryPaid(t) ==
    /\ threads[t].pc = "query_paid"
    /\ op' = [name |-> "query_totals",
              scan |-> <<SumFinal(log, FALSE), SumFinal(log, TRUE)>>,
              sorted |-> \A i \in 1..Len(log) - 1 : DateLE(log[i].date, log[i + 1].date)]
    /\ ret' = [tuple |-> query_totals([Self EXCEPT !.total_due = threads[t].due])]
    /\ threads' = [threads EXCEPT ![t] = Idle]
    /\ UNCHANGED <<logvars, search, overlap, calls, platvars>>

NextThreads ==
    \/ \E t \in Threads, date \in LogDates, card \in LogCards, status \in BOOLEAN :
          ThreadCall(t, date, card, Whole(1000), status)
    \/ \E t \in Threads : ThreadTestEmpty(t)
    \/ \E t \in Threads : ThreadBounds(t)
    \/ \E t \in Threads : ThreadLoop(t)
    \/ \E t \in Threads : ThreadCompareStart(t)
    \/ \E t \in Threads : ThreadCompareEnd(t)
    \/ \E t \in Threads : ThreadInsert(t)
    \/ \E t \in Threads : ThreadFirstMin(t)
    \/ \E t \in Threads : ThreadFirstMax(t)
    \/ \E t \in Threads : ThreadMinIsNone(t)
    \/ \E t \in Threads : ThreadMinCompare(t)
    \/ \E t \in Threads : ThreadMinSet(t)
    \/ \E t \in Threads : ThreadMaxIsNone(t)
    \/ \E t \in Threads : ThreadMaxCompare(t)
    \/ \E t \in Threads : ThreadMaxSet(t)
    \/ \E t \in Threads : ThreadTotalsLoad(t)
    \/ \E t \in Threads : ThreadTotalsStore(t)
    \/ \E t \in Threads : ThreadQueryDue(t)
    \/ \E t \in Threads : ThreadQueryPaid(t)

SpecThreads == InitThreads /\ [][NextThreads]_vars


(***************************************************************************)
(* Properties                                                              *)
(***************************************************************************)

\* Positions of the Due records of the log.
DuePositions == {i \in 1..Len(log) : ~log[i].status}

\* C1: after every add_purchase, total_due is the sum of final_amount over the
\* Due records found by a full scan of the log, and total_paid the sum over the
\* Paid records.
C1_AggregateCorrectness ==
    /\ total_due = SumFinal(log, FALSE)
    /\ total_paid = SumFinal(log, TRUE)

\* C2: after each add_purchase the log is non-decreasing by date: every record
\* has a date less than or equal to the date of the record after it.
C2_SortInvariant ==
    \A i \in 1..(Len(log) - 1) : DateLE(log[i].date, log[i + 1].date)

C2_Witness ==
    /\ op.name = "add_purchase"
    /\ Len(log) >= 7
    /\ Len(search.steps) >= 1
    /\ \E i \in 1..(Len(log) - 1) : log[i].date = log[i + 1].date
    /\ \E i \in 1..(Len(log) - 1) : DateLT(log[i].date, log[i + 1].date)
    /\ \E i \in 1..(Len(log) - 1) : log[i].oid > log[i + 1].oid
    /\ \A i \in 1..(Len(log) - 1) : DateLE(log[i].date, log[i + 1].date)

\* C3: min_purchase (max_purchase) is the Due record of the log with the
\* smallest (largest) final_amount; among several Due records with that amount
\* it is the earliest inserted one.  Holds also when the first records inserted
\* are Paid.
C3_MinMaxCorrectness ==
    DuePositions # {} =>
        /\ \E i \in DuePositions :
              /\ log[i] = min_purchase
              /\ \A j \in DuePositions :
                    \/ FLess(log[i].final_amount, log[j].final_amount)
                    \/ log[i].final_amount = log[j].final_amount
                         /\ log[i].oid <= log[j].oid
        /\ \E i \in DuePositions :
              /\ log[i] = max_purchase
              /\ \A j \in DuePositions :
                    \/ FLess(log[j].final_amount, log[i].final_amount)
                    \/ log[i].final_amount = log[j].final_amount
                         /\ log[i].oid <= log[j].oid

\* The first insertion was a payment, the Due records have different amounts,
\* and two of them tie on the smallest: the earlier one is min_purchase.
C3_Witness ==
    /\ \E i \in 1..Len(log) : log[i].oid = 1 /\ log[i].status
    /\ min_purchase # None
    /\ max_purchase # None
    /\ FLess(min_purchase.final_amount, max_purchase.final_amount)
    /\ \E j \in DuePositions :
          /\ log[j].final_amount = min_purchase.final_amount
          /\ log[j].oid > min_purchase.oid

\* C4: add_purchase places the new record after every existing record whose
\* date is less than or equal to its date and before every existing record
\* whose date is strictly greater; the other records keep their places.  So
\* equal dates stay in insertion order, a date before the first record's (or an
\* empty log) gives index 0, and a date at or after the last record's gives the
\* end.
C4_InsertPosition ==
    [][op'.name = "add_purchase" =>
         /\ Len(log') = Len(log) + 1
         /\ \E k \in 1..Len(log') :
               /\ log'[k] = op'.purchase
               /\ \A i \in 1..(k - 1) :
                     log'[i] = log[i] /\ DateLE(log[i].date, op'.purchase.date)
               /\ \A i \in (k + 1)..Len(log') :
                     log'[i] = log[i - 1] /\ DateGT(log[i - 1].date, op'.purchase.date)
         /\ (Len(log) = 0 \/ DateLT(op'.purchase.date, log[1].date))
               => log'[1] = op'.purchase
         /\ (Len(log) > 0 /\ DateGE(op'.purchase.date, log[Len(log)].date))
               => log'[Len(log')] = op'.purchase
         /\ \A i, j \in 1..Len(log') :
               (i < j /\ log'[i].date = log'[j].date) => log'[i].oid < log'[j].oid
    ]_vars

\* The new record went strictly inside a log of at least six records, right
\* after an older record of the same date and before one of a later date.
C4_Witness ==
    /\ op.name = "add_purchase"
    /\ Len(log) >= 6
    /\ \E k \in 2..(Len(log) - 1) :
          /\ log[k] = op.purchase
          /\ log[k - 1].date = op.purchase.date
          /\ DateGT(log[k + 1].date, op.purchase.date)

\* C5: add_purchase does not fail: every index of the binary search (_start,
\* _end, _mid) is within 0..len(log)-1 with _start <= _end, the chosen insertion
\* index is within 0..len(log), and no exception is raised.  Lengths are those
\* of the log before the insertion.
C5_SearchInRange ==
    op.name = "add_purchase" =>
        /\ ret = None
        /\ search # None
        /\ Len(log) = op.purchase.oid
        /\ search.index \in 0..(Len(log) - 1)
        /\ search.searched =>
              /\ search.start \in 0..(Len(log) - 2)
              /\ search.end \in 0..(Len(log) - 2)
              /\ search.start <= search.end
              /\ \A n \in 1..Len(search.steps) :
                    /\ search.steps[n].start \in 0..(Len(log) - 2)
                    /\ search.steps[n].end \in 0..(Len(log) - 2)
                    /\ search.steps[n].mid \in 0..(Len(log) - 2)
                    /\ search.steps[n].start <= search.steps[n].end

\* An insertion whose search ran its loop twice.
C5_Witness ==
    /\ op.name = "add_purchase"
    /\ ret = None
    /\ search # None
    /\ search.searched
    /\ Len(search.steps) >= 2
    /\ search.index \in 1..(Len(log) - 2)

\* Position in the log of a record (records are distinct objects).
PositionOf(r) == CHOOSE k \in 1..Len(log) : log[k] = r

\* C6: query_purchases(Paid) returns exactly the Paid records of the log, in
\* stored (ascending date) order, and no Due record; query_purchases(Due)
\* returns exactly the others: every record is in exactly one of the two.
C6_QueryFiltering ==
    /\ op.name = "query_purchases" =>
          /\ \A i \in 1..Len(ret.list) :
                /\ ret.list[i].status = op.status
                /\ \E k \in 1..Len(log) : log[k] = ret.list[i]
          /\ \A k \in 1..Len(log) :
                log[k].status = op.status
                    => \E i \in 1..Len(ret.list) : ret.list[i] = log[k]
          /\ \A i, j \in 1..Len(ret.list) :
                i < j => /\ PositionOf(ret.list[i]) < PositionOf(ret.list[j])
                         /\ DateLE(ret.list[i].date, ret.list[j].date)
    /\ \A k \in 1..Len(log) :
          /\ (\E i \in 1..Len(query_purchases(Self, TRUE)) :
                 query_purchases(Self, TRUE)[i] = log[k])
             # (\E i \in 1..Len(query_purchases(Self, FALSE)) :
                 query_purchases(Self, FALSE)[i] = log[k])
    /\ Len(query_purchases(Self, TRUE)) + Len(query_purchases(Self, FALSE)) = Len(log)

\* A query for payments on a log holding both kinds, answered with two records.
C6_Witness ==
    /\ op.name = "query_purchases"
    /\ op.status = TRUE
    /\ Len(ret.list) >= 2
    /\ Len(log) >= Len(ret.list) + 2
    /\ \A i \in 1..Len(ret.list) : ret.list[i].status

\* Whether the last call constructed a Purchase object.
Constructed == op.name = "Purchase" /\ ~IsError(ret)

\* C7: constructing a Purchase with a card outside {amex, visa, discover}
\* fails, for either status, with the error that names the offending card and
\* the supported set; no Purchase is produced.
C7_CardValidation ==
    (op.name = "Purchase" /\ op.card \notin {"amex", "visa", "discover"}) =>
        /\ IsError(ret)
        /\ ret.error = "AssertionError"
        /\ ret.card = op.card
        /\ {ret.supported[i] : i \in 1..Len(ret.supported)} = {"amex", "visa", "discover"}
        /\ "final_amount" \notin DOMAIN ret

C7_Witness ==
    /\ op.name = "Purchase"
    /\ op.card = "mastercard"
    /\ op.status = TRUE
    /\ IsError(ret)
    /\ ret.card = "mastercard"

\* The rate of each card of the specification, in percent.
SpecRate(card) ==
    CASE card = "amex" -> Literal(<<"0", ".", "8">>)
      [] card = "visa" -> Literal(<<"1", ".", "0">>)
      [] card = "discover" -> Literal(<<"0", ".", "5">>)

\* The rate of each card in thousandths, a whole number.
SpecRateThousandths(card) ==
    CASE card = "amex" -> 8
      [] card = "visa" -> 10
      [] card = "discover" -> 5

\* A whole number of thousands.
IsThousands(x) == "value" \in DOMAIN x /\ x.value % 1000 = 0

\* C8: a Due purchase has transaction_fee = amount * card_rate / 100,
\* convenience_fee = amount * 0.2 / 100 and final_amount = amount + both fees,
\* each operation that of floats (1000 on visa: 10, 2, 1012; 12.5 on visa:
\* 0.125, 0.025, 12.65); for a whole number of thousands the fees are the
\* exact ones; a Paid record has both fees 0 and final_amount equal to amount.
C8_FeeDeterminism ==
    Constructed =>
        /\ ret.amount = op.amount /\ ret.card = op.card /\ ret.status = op.status
        /\ ~op.status =>
              /\ ret._transaction_fee
                    = FDiv(FMul(op.amount, SpecRate(op.card)), Whole(100))
              /\ ret._convenience_fee
                    = FDiv(FMul(op.amount, Literal(<<"0", ".", "2">>)), Whole(100))
              /\ ret.final_amount
                    = FAdd(FAdd(op.amount, ret._transaction_fee), ret._convenience_fee)
        /\ (~op.status /\ IsThousands(op.amount)) =>
              /\ ret._transaction_fee
                    = Whole((op.amount.value \div 1000) * SpecRateThousandths(op.card))
              /\ ret._convenience_fee = Whole((op.amount.value \div 1000) * 2)
              /\ ret.final_amount
                    = Whole(op.amount.value
                            + (op.amount.value \div 1000) * SpecRateThousandths(op.card)
                            + (op.amount.value \div 1000) * 2)
        /\ (~op.status /\ op.amount = Whole(1000) /\ op.card = "visa") =>
              /\ ret._transaction_fee = Whole(10)
              /\ ret._convenience_fee = Whole(2)
              /\ ret.final_amount = Whole(1012)
        /\ (~op.status /\ op.amount = Literal(<<"1", "2", ".", "5">>)
                /\ op.card = "visa") =>
              /\ ret._transaction_fee = Literal(<<"0", ".", "1", "2", "5">>)
              /\ ret._convenience_fee = Literal(<<"0", ".", "0", "2", "5">>)
              /\ ret.final_amount = Literal(<<"1", "2", ".", "6", "5">>)
        /\ op.status =>
              /\ ret._transaction_fee = Whole(0)
              /\ ret._convenience_fee = Whole(0)
              /\ ret.final_amount = op.amount

\* A purchase of 12.5 on amex was constructed with its three amounts.
C8_Witness ==
    /\ Constructed
    /\ ~op.status
    /\ op.card = "amex"
    /\ op.amount = Literal(<<"1", "2", ".", "5">>)
    /\ ret._transaction_fee = Literal(<<"0", ".", "1">>)
    /\ ret._convenience_fee = Literal(<<"0", ".", "0", "2", "5">>)
    /\ ret.final_amount = Literal(<<"1", "2", ".", "6", "2", "5">>)

\* Last day of the calendar month of a date.
MonthEnd(date) ==
    [year |-> date.year, month |-> date.month,
     day |-> DaysInMonth(date.year, date.month)]

\* C9: for every date, the billing cycle of a Purchase is (first day of the
\* date's month, last day of that month): December ends on 31 December of the
\* same year, February on the 28th, or the 29th in a leap year; the date lies
\* within the cycle.
C9_BillingCycle ==
    (op.name = "Purchase" /\ op.card \in {"amex", "visa", "discover"}) =>
        /\ ~IsError(ret)
        /\ ret.billing_cycle
             = DateStr([op.date EXCEPT !.day = 1]) \o ", " \o DateStr(MonthEnd(op.date))
        /\ op.date.month = 12
             => ret.billing_cycle
                  = Pad(op.date.year, 4) \o "-12-01, " \o Pad(op.date.year, 4) \o "-12-31"
        /\ DateLE([op.date EXCEPT !.day = 1], op.date)
        /\ DateLE(op.date, MonthEnd(op.date))

\* Whether a call is one of the two queries.
IsQuery(call) == call.name \in {"query_totals", "query_purchases"}

\* C10: query_totals and query_purchases are pure reads: a query leaves the
\* log, total_due, total_paid, min_purchase and max_purchase unchanged, and a
\* query repeated right after itself returns the same result.
C10_PureQueries ==
    [][IsQuery(op') =>
         /\ log' = log
         /\ total_due' = total_due
         /\ total_paid' = total_paid
         /\ min_purchase' = min_purchase
         /\ max_purchase' = max_purchase
         /\ (op' = op => ret' = ret)
         /\ (IsQuery(op) /\ op'.name = "query_totals")
               => ret'.tuple = <<total_due, total_paid>>
    ]_vars

\* A query answered on a log of several records of both kinds.
C10_Witness ==
    /\ op.name = "query_purchases"
    /\ op.status = FALSE
    /\ Len(log) >= 3
    /\ Len(ret.list) >= 1
    /\ Len(ret.list) < Len(log)
    /\ FLess(Whole(0), total_due)
    /\ FLess(Whole(0), total_paid)

\* C11: a freshly constructed PurchaseLog has no records, query_totals()
\* returns (0, 0), and min_purchase and max_purchase are both absent.
C11_EmptyLog ==
    /\ op.name = "PurchaseLog" =>
          /\ log = <<>>
          /\ total_due = Whole(0) /\ total_paid = Whole(0)
          /\ min_purchase = None /\ max_purchase = None
    /\ (op.name = "query_totals" /\ Len(log) = 0) => ret.tuple = <<Whole(0), Whole(0)>>
    /\ Len(log) = 0 => (min_purchase = None /\ max_purchase = None)

\* query_totals was called on the log before any insertion.
C11_Witness ==
    /\ op.name = "query_totals"
    /\ log = <<>>
    /\ ret.tuple = <<Whole(0), Whole(0)>>
    /\ min_purchase = None
    /\ max_purchase = None

\* C12: the log only grows by insertion.  An add_purchase adds exactly one
\* record, every record present before is still present with all its fields
\* unchanged and in the same relative order; no other operation changes the
\* log.
C12_GrowOnly ==
    [][/\ op'.name = "add_purchase" =>
             /\ Len(log') = Len(log) + 1
             /\ \E k \in 1..Len(log') :
                   /\ \A i \in 1..(k - 1) : log'[i] = log[i]
                   /\ \A i \in (k + 1)..Len(log') : log'[i] = log[i - 1]
             /\ \A i \in 1..Len(log) : \E j \in 1..Len(log') : log'[j] = log[i]
       /\ op'.name # "add_purchase" => log' = log
    ]_vars

\* A record was inserted strictly inside a log of at least two older records.
C12_Witness ==
    /\ op.name = "add_purchase"
    /\ Len(log) >= 3
    /\ \E k \in 2..(Len(log) - 1) :
          /\ log[k] = op.purchase
          /\ log[k - 1].oid < op.purchase.oid
          /\ log[k + 1].oid < op.purchase.oid

\* C13: add_purchase updates only the aggregates of the inserted record's
\* status.  A Paid record adds its final_amount to total_paid and leaves
\* total_due, min_purchase and max_purchase unchanged; a Due record adds its
\* final_amount to total_due and leaves total_paid unchanged.
C13_AggregateFrame ==
    [][op'.name = "add_purchase" =>
         /\ op'.purchase.status =>
               /\ total_paid' = FAdd(total_paid, op'.purchase.final_amount)
               /\ total_due' = total_due
               /\ min_purchase' = min_purchase
               /\ max_purchase' = max_purchase
         /\ ~op'.purchase.status =>
               /\ total_due' = FAdd(total_due, op'.purchase.final_amount)
               /\ total_paid' = total_paid
    ]_vars

\* A payment smaller than the minimum purchase was added to a log that has a
\* minimum purchase.
C13_Witness ==
    /\ op.name = "add_purchase"
    /\ op.purchase.status
    /\ min_purchase # None
    /\ FLess(op.purchase.final_amount, min_purchase.final_amount)
    /\ FLessEq(op.purchase.final_amount, total_paid)
    /\ FLess(Whole(0), total_due)

\* Width of the interval of a step of the search: the number of indices in
\* [_start, _end].
StepWidth(step) == step.end - step.start + 1

\* C14: the loop of the binary search ends, each iteration leaving an interval
\* of at most half as many indices, after at most floor(log2(n)) iterations on
\* a log of n >= 1 records (2^iterations <= n).
C14_LogarithmicSearch ==
    (op.name = "add_purchase" /\ search # None /\ search.searched) =>
        /\ 2 ^ Len(search.steps) <= Len(log) - 1
        /\ \A n \in 1..Len(search.steps) :
              /\ StepWidth(search.steps[n]) >= 3
              /\ n < Len(search.steps) =>
                    2 * StepWidth(search.steps[n + 1]) <= StepWidth(search.steps[n])
              /\ n = Len(search.steps) =>
                    2 * (search.end - search.start + 1) <= StepWidth(search.steps[n])
        /\ Len(search.steps) = 0 => (search.start = 0 /\ search.end = Len(log) - 2)

\* An insertion into a log of seven records whose loop ran twice.
C14_Witness ==
    /\ op.name = "add_purchase"
    /\ search # None
    /\ search.searched
    /\ Len(log) = 8
    /\ Len(search.steps) = 2

\* C19: min_purchase and max_purchase are both absent exactly when the log
\* holds no Due record, and otherwise both present; when present each is a
\* record of the log with status Due and min_purchase.final_amount <=
\* max_purchase.final_amount.
C19_MinMaxPresence ==
    /\ (min_purchase = None) <=> (DuePositions = {})
    /\ (max_purchase = None) <=> (DuePositions = {})
    /\ min_purchase # None =>
          /\ ~min_purchase.status
          /\ \E i \in 1..Len(log) : log[i] = min_purchase
    /\ max_purchase # None =>
          /\ ~max_purchase.status
          /\ \E i \in 1..Len(log) : log[i] = max_purchase
    /\ (min_purchase # None /\ max_purchase # None) =>
          FLessEq(min_purchase.final_amount, max_purchase.final_amount)

\* Payments were inserted first and are larger than the only purchases.
C19_Witness ==
    /\ Len(log) >= 3
    /\ \E i \in 1..Len(log) : log[i].oid = 1 /\ log[i].status
    /\ min_purchase # None
    /\ max_purchase # None
    /\ min_purchase # max_purchase
    /\ \E i \in 1..Len(log) :
          log[i].status /\ FLess(log[i].final_amount, min_purchase.final_amount)

\* Sortedness, totals and min/max of a PurchaseLog value, against a full scan
\* of its records.
RECURSIVE SumOf(_, _)
SumOf(records, status) ==
    IF records = <<>> THEN Whole(0)
    ELSE IF records[Len(records)].status = status
         THEN FAdd(SumOf(SubSeq(records, 1, Len(records) - 1), status),
                   records[Len(records)].final_amount)
    ELSE SumOf(SubSeq(records, 1, Len(records) - 1), status)

DueOf(pl) == {i \in 1..Len(pl.log) : ~pl.log[i].status}

ConsistentLog(pl) ==
    /\ \A i \in 1..(Len(pl.log) - 1) : DateLE(pl.log[i].date, pl.log[i + 1].date)
    /\ pl.total_due = SumOf(pl.log, FALSE)
    /\ pl.total_paid = SumOf(pl.log, TRUE)
    /\ DueOf(pl) = {} => (pl.min_purchase = None /\ pl.max_purchase = None)
    /\ DueOf(pl) # {} =>
          /\ \E i \in DueOf(pl) : pl.log[i] = pl.min_purchase
          /\ \E i \in DueOf(pl) : pl.log[i] = pl.max_purchase
          /\ \A j \in DueOf(pl) :
                /\ FLessEq(pl.min_purchase.final_amount, pl.log[j].final_amount)
                /\ FLessEq(pl.log[j].final_amount, pl.max_purchase.final_amount)

\* C16: the user database is written only when no insertion is in flight
\* (upload_purchase writes after add_purchase has finished, create_account,
\* logout and the constructor write outside any insertion), so every persisted
\* PurchaseLog is sorted by date and has totals and min/max that agree with its
\* records; a call that wrote left the file equal to the database in memory.
C16_PersistedConsistent ==
    /\ \A u \in DOMAIN file : ConsistentLog(file[u].purchase_log)
    /\ op.wrote => /\ file = userdata
                   /\ IsError(ret) = FALSE
    /\ (op.name = "upload_purchase" /\ op.wrote) =>
          ConsistentLog(file[current_user.str].purchase_log)

\* C17: in upload_purchase the status prompt records a payment when the answer
\* is 1 and a purchase for every other answer, an empty or non-numeric one
\* included; in every case a record is added to the log.
C17_StatusDefault ==
    (op.name = "upload_purchase" /\ "statusstr" \in DOMAIN op) =>
        /\ ret = None
        /\ op.wrote
        /\ Len(CurrentLog.log) >= 1
        /\ \E i \in 1..Len(CurrentLog.log) :
              /\ CurrentLog.log[i].oid = Len(CurrentLog.log)
              /\ CurrentLog.log[i].status = (op.statusstr = Typed(<<"1">>))

\* C18: each account owns its own PurchaseLog, and upload_purchase adds a
\* record only while a user is logged in and only to that user's log: with no
\* current user it changes nothing, and no other account is changed by it.
C18_OwnLogOnly ==
    [][op'.name = "upload_purchase" =>
         /\ DOMAIN userdata' = DOMAIN userdata
         /\ current_user' = current_user
         /\ current_user = None => (userdata' = userdata /\ file' = file)
         /\ \A u \in DOMAIN userdata :
               (current_user = None \/ u # current_user.str)
                   => userdata'[u] = userdata[u]
         /\ \A u \in DOMAIN userdata :
               userdata'[u] # userdata[u] =>
                   /\ current_user = [str |-> u]
                   /\ Len(userdata'[u].purchase_log.log)
                        = Len(userdata[u].purchase_log.log) + 1
                   /\ [userdata'[u] EXCEPT !.purchase_log = PurchaseLogInit]
                        = [userdata[u] EXCEPT !.purchase_log = PurchaseLogInit]
    ]_vars

\* An upload added a record to the log of the user logged in while the other
\* account holds a log of its own; its amount was typed with an Arabic-Indic
\* digit and an em space after it, its status with the fullwidth digit one.
C18_Witness ==
    /\ op.name = "upload_purchase"
    /\ op.wrote
    /\ "statusstr" \in DOMAIN op
    /\ op.amountstr = <<1633, 48, 48, 48, 8195>>
    /\ op.statusstr = <<65297>>
    /\ DOMAIN userdata = Usernames
    /\ current_user = [str |-> "bob"]
    /\ Len(userdata["bob"].purchase_log.log) = 1
    /\ Len(userdata["ann"].purchase_log.log) = 2
    /\ userdata["bob"].purchase_log.log[1].amount = Whole(1000)
    /\ userdata["bob"].purchase_log.log[1].status

\* The supported card types, as typed.
SupportedCards ==
    {Typed(<<"a", "m", "e", "x">>), Typed(<<"v", "i", "s", "a">>),
     Typed(<<"d", "i", "s", "c", "o", "v", "e", "r">>)}

\* C20: upload_purchase given an unsupported card type (an answer whose
\* lowercase is no key of card_rate) fails before any record is inserted: the
\* current user's records, totals and min/max are unchanged and the call does
\* not write the user database.
C20_BadCardNoEffect ==
    [][(op'.name = "upload_purchase" /\ "card" \in DOMAIN op'
            /\ op'.card \notin SupportedCards) =>
         /\ IsError(ret')
         /\ ret'.error = "AssertionError"
         /\ userdata' = userdata
         /\ file' = file
         /\ ~op'.wrote
    ]_vars

\* A logged-in user with a record in the log was refused a mastercard upload.
C20_Witness ==
    /\ op.name = "upload_purchase"
    /\ "card" \in DOMAIN op
    /\ op.card = Typed(<<"m", "a", "s", "t", "e", "r", "c", "a", "r", "d">>)
    /\ IsError(ret)
    /\ current_user # None
    /\ Len(CurrentLog.log) >= 1
    /\ file = userdata

\* The calls of caller t that have inserted their record and not yet written
\* the total.
Inserted(t) ==
    threads[t].pc \in {"first_min", "first_max", "min_none", "min_compare", "min_set",
                       "max_none", "max_compare", "max_set", "load", "store"}

\* C15: add_purchase is not atomic and takes no lock.  When the calls on a log
\* are serialized (no call ever starts while another is in flight), the log
\* stays sorted, every query returns totals equal to a full scan of the
\* records, the totals of a log no call is working on equal that scan, and a
\* call between its insertion and its update of the totals has its record in
\* the log.
C15_SerializedConsistent ==
    ~overlap =>
        /\ \A i \in 1..Len(log) - 1 : DateLE(log[i].date, log[i + 1].date)
        /\ op.name = "query_totals" => (ret.tuple = op.scan /\ op.sorted)
        /\ (\A t \in Threads : threads[t].pc \in {"idle", "query_paid"}) =>
              /\ total_due = SumFinal(log, FALSE)
              /\ total_paid = SumFinal(log, TRUE)
        /\ \A t \in Threads : Inserted(t) =>
              \E i \in 1..Len(log) : log[i] = threads[t].purchase

====
